---- MODULE Spec2Model ----
(***************************************************************************)
(* A model of the x69 assembler: the instruction table (instruction.rs),   *)
(* the operand-mode parser (parser.rs, parse_raw) and the code generator   *)
(* with symbol resolution (assemble_lines, called from lib.rs and main.rs).*)
(*                                                                         *)
(* Text is a sequence of one-character strings; a token is a record        *)
(* [t, s, d]: its kind, its name (identifiers, labels, directives) and its *)
(* text (numeric literals, registers, strings).                            *)
(***************************************************************************)
EXTENDS Integers, Sequences, FiniteSets, TLC

\* ------------------------------------------------------------------ bounds

\* Source lines of one program.
MaxLines == 3
\* Diagnostics kept while the parser is inside one `.db` directive.
MaxLogs == 4
\* Source lines of a program that is only parsed.
MaxParseLines == 2
\* Digits of the hexadecimal and of the binary literals handed to make_int!.
MaxHexDigits == 5
MaxBinDigits == 17
\* Register numbers of the lines handed to codegen.rs (15 is the last
\* register), and lines of its longer programs.
MaxReg == 16
MaxAsmLines == 2
MaxRepeat == 86

\* ------------------------------------------------------------ bit helpers

RECURSIVE BitOr(_, _)
BitOr(a, b) ==
    IF a = 0 THEN b
    ELSE IF b = 0 THEN a
    ELSE (IF a % 2 = 1 \/ b % 2 = 1 THEN 1 ELSE 0) + 2 * BitOr(a \div 2, b \div 2)

RECURSIVE BitAnd(_, _)
BitAnd(a, b) ==
    IF a = 0 \/ b = 0 THEN 0
    ELSE (IF a % 2 = 1 /\ b % 2 = 1 THEN 1 ELSE 0) + 2 * BitAnd(a \div 2, b \div 2)

\* a << n on a u8
Shl8(a, n) == (a * (2 ^ n)) % 256

\* ------------------------------------------------------ instruction table

\* CPU special registers
PC == 0
LR == 1
SP == 2
ADR == 3

\* ALU flags
ZERO == 0
CARRY == 1

rw_builder(write, register) ==
    LET rw == BitOr(72, register)
    IN  IF write THEN BitOr(rw, 4) ELSE rw

jump_builder(relative, check_true, alu_flag) ==
    LET j0 == BitOr(96, Shl8(alu_flag, 2))
        j1 == IF relative THEN BitOr(j0, 2) ELSE j0
    IN  IF check_true THEN BitOr(j1, 16) ELSE j1

call_builder(relative, check_true, alu_flag) ==
    LET c0 == BitOr(97, Shl8(alu_flag, 2))
        c1 == IF relative THEN BitOr(c0, 2) ELSE c0
    IN  IF check_true THEN BitOr(c1, 16) ELSE c1

\* The closed set of mnemonics, in declaration order.
Instruction ==
    << "NOP", "CLR", "SER", "NOT", "TWO", "AND", "NND", "ORR", "NOR", "XOR",
       "XNR", "ADD", "ADC", "SUB", "SBC", "INC", "DEC", "MOV", "MVN", "SET",
       "STN", "CMP", "LDR", "SDR", "LPC", "JMP", "LLR", "SLR", "LSP", "SSP",
       "LADR", "SADR", "JMPZ", "JMPNZ", "JMPC", "JMPNC", "RJMPZ", "RJMPNZ",
       "RJMPC", "RJMPNC", "CALLZ", "CALLNZ", "CALLC", "CALLNC", "RCALLZ",
       "RCALLNZ", "RCALLC", "RCALLNC" >>

Mnemonics == { Instruction[i] : i \in 1..Len(Instruction) }

Info(op, mode, map) == [op |-> op, mode |-> mode, map |-> map]

assemble_info(name) ==
    CASE name = "NOP" -> Info(41, "NoParams", "AB")
      [] name = "CLR" -> Info(32, "OneRegister", "AA")
      [] name = "SER" -> Info(48, "OneRegister", "AA")
      [] name = "NOT" -> Info(33, "OneOrTwoRegisters", "BA")
      [] name = "TWO" -> Info(49, "OneOrTwoRegisters", "BA")
      [] name = "AND" -> Info(34, "TwoRegistersOrImmediate", "BA")
      [] name = "NND" -> Info(50, "TwoRegistersOrImmediate", "BA")
      [] name = "ORR" -> Info(35, "TwoRegistersOrImmediate", "BA")
      [] name = "NOR" -> Info(51, "TwoRegistersOrImmediate", "BA")
      [] name = "XOR" -> Info(36, "TwoRegistersOrImmediate", "BA")
      [] name = "XNR" -> Info(52, "TwoRegistersOrImmediate", "BA")
      [] name = "ADD" -> Info(37, "TwoRegistersOrImmediate", "BA")
      [] name = "ADC" -> Info(53, "TwoRegistersOrImmediate", "BA")
      [] name = "SUB" -> Info(38, "TwoRegistersOrImmediate", "BA")
      [] name = "SBC" -> Info(54, "TwoRegistersOrImmediate", "BA")
      [] name = "INC" -> Info(39, "OneOrTwoRegisters", "BA")
      [] name = "DEC" -> Info(55, "OneOrTwoRegisters", "BA")
      [] name = "MOV" -> Info(40, "TwoRegistersOrImmediate", "BA")
      [] name = "MVN" -> Info(56, "TwoRegistersOrImmediate", "BA")
      [] name = "SET" -> Info(41, "OneRegisterAndImmediate", "AA")
      [] name = "STN" -> Info(57, "OneRegisterAndImmediate", "AA")
      [] name = "CMP" -> Info(42, "TwoRegisters", "AB")
      [] name = "LDR" -> Info(16, "OneRegisterAndImmediate", "AA")
      [] name = "SDR" -> Info(17, "OneRegisterAndImmediate", "AA")
      [] name = "LPC" -> Info(rw_builder(FALSE, PC), "TwoRegisters", "AB")
      [] name = "JMP" -> Info(rw_builder(TRUE, PC), "TwoRegistersOrLongImmediate", "AB")
      [] name = "LLR" -> Info(rw_builder(FALSE, LR), "TwoRegisters", "AB")
      [] name = "SLR" -> Info(rw_builder(TRUE, LR), "TwoRegistersOrLongImmediate", "AB")
      [] name = "LSP" -> Info(rw_builder(FALSE, SP), "TwoRegisters", "AB")
      [] name = "SSP" -> Info(rw_builder(TRUE, SP), "TwoRegistersOrLongImmediate", "AB")
      [] name = "LADR" -> Info(rw_builder(FALSE, ADR), "TwoRegisters", "AB")
      [] name = "SADR" -> Info(rw_builder(TRUE, ADR), "TwoRegistersOrLongImmediate", "AB")
      [] name = "JMPZ" -> Info(jump_builder(FALSE, TRUE, ZERO), "TwoRegistersOrLongImmediate", "AB")
      [] name = "JMPNZ" -> Info(jump_builder(FALSE, FALSE, ZERO), "TwoRegistersOrLongImmediate", "AB")
      [] name = "JMPC" -> Info(jump_builder(FALSE, TRUE, CARRY), "TwoRegistersOrLongImmediate", "AB")
      [] name = "JMPNC" -> Info(jump_builder(FALSE, FALSE, CARRY), "TwoRegistersOrLongImmediate", "AB")
      [] name = "RJMPZ" -> Info(jump_builder(TRUE, TRUE, ZERO), "TwoRegistersOrLongImmediate", "AB")
      [] name = "RJMPNZ" -> Info(jump_builder(TRUE, FALSE, ZERO), "TwoRegistersOrLongImmediate", "AB")
      [] name = "RJMPC" -> Info(jump_builder(TRUE, TRUE, CARRY), "TwoRegistersOrLongImmediate", "AB")
      [] name = "RJMPNC" -> Info(jump_builder(TRUE, FALSE, CARRY), "TwoRegistersOrLongImmediate", "AB")
      [] name = "CALLZ" -> Info(call_builder(FALSE, TRUE, ZERO), "TwoRegistersOrLongImmediate", "AB")
      [] name = "CALLNZ" -> Info(call_builder(FALSE, FALSE, ZERO), "TwoRegistersOrLongImmediate", "AB")
      [] name = "CALLC" -> Info(call_builder(FALSE, TRUE, CARRY), "TwoRegistersOrLongImmediate", "AB")
      [] name = "CALLNC" -> Info(call_builder(FALSE, FALSE, CARRY), "TwoRegistersOrLongImmediate", "AB")
      [] name = "RCALLZ" -> Info(call_builder(TRUE, TRUE, ZERO), "TwoRegistersOrLongImmediate", "AB")
      [] name = "RCALLNZ" -> Info(call_builder(TRUE, FALSE, ZERO), "TwoRegistersOrLongImmediate", "AB")
      [] name = "RCALLC" -> Info(call_builder(TRUE, TRUE, CARRY), "TwoRegistersOrLongImmediate", "AB")
      [] name = "RCALLNC" -> Info(call_builder(TRUE, FALSE, CARRY), "TwoRegistersOrLongImmediate", "AB")

\* Instruction::from_str (derived by ToFromString): an exact match of a
\* variant's name, "" standing for None.
from_str(string) == IF string \in Mnemonics THEN string ELSE ""

\* The mnemonics in lower case, in the order of Instruction.
lower_case ==
    << "nop", "clr", "ser", "not", "two", "and", "nnd", "orr", "nor", "xor",
       "xnr", "add", "adc", "sub", "sbc", "inc", "dec", "mov", "mvn", "set",
       "stn", "cmp", "ldr", "sdr", "lpc", "jmp", "llr", "slr", "lsp", "ssp",
       "ladr", "sadr", "jmpz", "jmpnz", "jmpc", "jmpnc", "rjmpz", "rjmpnz",
       "rjmpc", "rjmpnc", "callz", "callnz", "callc", "callnc", "rcallz",
       "rcallnz", "rcallc", "rcallnc" >>

\* str::to_uppercase on the identifiers the model draws its lines from: a
\* mnemonic in lower case, "Jmp", and identifiers that it leaves as they are.
to_uppercase(s) ==
    IF \E k \in 1..Len(lower_case) : lower_case[k] = s
        THEN Instruction[CHOOSE k \in 1..Len(lower_case) : lower_case[k] = s]
    ELSE IF s = "Jmp" THEN "JMP"
    ELSE s

\* ---------------------------------------------------------------- tokens

Tk(t, s, d) == [t |-> t, s |-> s, d |-> d]
TIdent(s) == Tk("Ident", s, <<>>)
TLabel(s) == Tk("Label", s, <<>>)
TDirective(s) == Tk("Directive", s, <<>>)
TImmediate(d) == Tk("Immediate", "", d)
TRegister(d) == Tk("Register", "", d)
TString(d) == Tk("String", "", d)
TUnknown(d) == Tk("Unknown", "", d)
TComma == Tk("Comma", "", <<>>)
\* lexer.next() = None
NoToken == Tk("None", "", <<>>)

\* The i-th call of lexer.next() on a line: None once the line is used up,
\* and None again on every later call.
Tok(toks, i) == IF i <= Len(toks) THEN toks[i] ELSE NoToken

\* ------------------------------------------------------ numeric literals

\* A parse that failed (ParseIntError).
Err == -1

decimal_digits == <<"0", "1", "2", "3", "4", "5", "6", "7", "8", "9">>
lower_hex == <<"a", "b", "c", "d", "e", "f">>
upper_hex == <<"A", "B", "C", "D", "E", "F">>

\* char::to_digit(radix): the digit's value, Err when c is no digit of radix.
to_digit(c, radix) ==
    LET v == IF \E k \in 1..10 : decimal_digits[k] = c
                 THEN (CHOOSE k \in 1..10 : decimal_digits[k] = c) - 1
             ELSE IF \E k \in 1..6 : lower_hex[k] = c
                 THEN (CHOOSE k \in 1..6 : lower_hex[k] = c) + 9
             ELSE IF \E k \in 1..6 : upper_hex[k] = c
                 THEN (CHOOSE k \in 1..6 : upper_hex[k] = c) + 9
             ELSE Err
    IN  IF v # Err /\ v < radix THEN v ELSE Err

RECURSIVE fold_digits(_, _, _, _)
fold_digits(s, radix, max, acc) ==
    IF s = <<>> THEN acc
    ELSE LET d == to_digit(Head(s), radix)
         IN  IF d = Err THEN Err
             ELSE IF acc * radix + d > max THEN Err
             ELSE fold_digits(Tail(s), radix, max, acc * radix + d)

\* uN::from_str_radix(s, radix) for the unsigned type whose maximum is max:
\* an optional '+', then at least one digit; Err on an empty string, a
\* character that is no digit, or a value above max.
from_str_radix(s, radix, max) ==
    LET digits == IF s # <<>> /\ Head(s) = "+" THEN Tail(s) ELSE s
    IN  IF digits = <<>> THEN Err ELSE fold_digits(digits, radix, max, 0)

IntResult(v, warn) == [ok |-> v # Err, val |-> v, warn |-> warn]

\* Mutation of make_int: the textual truncation of hex and binary literals
\* keeps the leading digits instead of the trailing ones.
make_int_keeps_leading(im, BITS) ==
    LET max == 2 ^ BITS - 1
        len == Len(im)
    IN  IF len >= 2 /\ im[1] = "0" /\ im[2] = "x"
            THEN IntResult(from_str_radix(
                     SubSeq(im, 3, IF len > BITS \div 4 + 2 THEN BITS \div 4 + 2 ELSE len),
                     16, max), len > BITS \div 4 + 2)
        ELSE IF len >= 2 /\ im[1] = "0" /\ im[2] = "b"
            THEN IntResult(from_str_radix(
                     SubSeq(im, 3, IF len > BITS + 2 THEN BITS + 2 ELSE len),
                     2, max), len > BITS + 2)
        ELSE IntResult(from_str_radix(im, 10, max), FALSE)

\* make_int!(im, uBITS): the value of the literal im in a BITS-bit unsigned
\* target, whether the parse succeeded, and whether the truncation warning
\* was logged. A hex or binary literal with more digits than the target
\* holds loses its leading digits (offset moves right) before it is parsed.
make_int(im, BITS) ==
    LET max == 2 ^ BITS - 1
        len == Len(im)
    IN  IF len >= 1 /\ im[1] = "0"
            THEN IF len >= 2 /\ im[2] = "x"
                     THEN LET trunc == len > BITS \div 4 + 2
                              offset == IF trunc THEN 2 + (len - BITS \div 4 - 2) ELSE 2
                          IN  IntResult(from_str_radix(SubSeq(im, offset + 1, len), 16, max), trunc)
                 ELSE IF len >= 2 /\ im[2] = "b"
                     THEN LET trunc == len > BITS + 2
                              offset == IF trunc THEN 2 + (len - BITS - 2) ELSE 2
                          IN  IntResult(from_str_radix(SubSeq(im, offset + 1, len), 2, max), trunc)
                 ELSE IntResult(from_str_radix(im, 10, max), FALSE)
        ELSE IntResult(from_str_radix(im, 10, max), FALSE)

\* Mutation of from_u8: every u8 is a register.
from_u8_any(r) == r

\* Register::from_u8: only 0..15.
from_u8(r) == IF r <= 15 THEN r ELSE Err

\* make_register!(reg): the register's text parsed as a u8, then range
\* checked; Err stands for the "register out of bounds" error.
make_register(reg) ==
    LET r == from_str_radix(reg, 10, 255)
    IN  IF r = Err THEN Err ELSE from_u8(r)

\* str::as_bytes on the characters the model's strings are made of.
as_byte(c) ==
    CASE c = "h" -> 104
      [] c = "i" -> 105
      [] c = "A" -> 65
      [] c = "0" -> 48
      [] OTHER -> 63

as_bytes(s) == [k \in 1..Len(s) |-> as_byte(s[k])]

\* ------------------------------------------------- parsed lines and logs

\* Parameters
Params(k, l, a, b, i) == [k |-> k, l |-> l, a |-> a, b |-> b, i |-> i]
PNone == Params("None", "", 0, 0, 0)
PLabel(l) == Params("Label", l, 0, 0, 0)
PLongImmediate(i) == Params("LongImmediate", "", 0, 0, i)
POneRegister(a) == Params("OneRegister", "", a, 0, 0)
PTwoRegisters(a, b) == Params("TwoRegisters", "", a, b, 0)
POneRegisterImmediate(a, i) == Params("OneRegisterImmediate", "", a, 0, i)
PTwoRegistersImmedaite(a, b, i) == Params("TwoRegistersImmedaite", "", a, b, i)

\* DataByte
DataLabel(l) == [k |-> "Label", l |-> l, b |-> 0]
DataByte(b) == [k |-> "Byte", l |-> "", b |-> b]

\* LineData
Data(k, name, n, db, p) == [k |-> k, name |-> name, n |-> n, db |-> db, p |-> p]
LabelData(l) == Data("Label", l, 0, <<>>, PNone)
LineDirective(n) == Data("Line", "", n, <<>>, PNone)
DBDirective(db) == Data("DB", "", 0, db, PNone)
InstructionData(name, p) == Data("Instruction", name, 0, <<>>, p)

\* Line: where the line comes from (file, 0-based line) and what it holds.
Line(ctx, data) == [origin |-> ctx.origin, line |-> ctx.line, data |-> data]

\* Log: Warning and Error carry the line and the file, IOError the file.
Log(kind, ctx, msg) == [kind |-> kind, line |-> ctx.line, msg |-> msg, origin |-> ctx.origin]
IOError(msg, origin) == [kind |-> "IOError", line |-> 0, msg |-> msg, origin |-> origin]

\* Log::is_error
is_error(log) == log.kind \in {"Error", "IOError"}

\* What one iteration of parse_raw's loop over the source lines adds: the
\* parsed lines, the logs, and whether the iteration never ends (spin).
Out(ls, lg) == [lines |-> ls, logs |-> lg, spin |-> FALSE]

\* log!(Error, msg): push the error after the logs of this line so far, and
\* go to the next line.
Fail(ctx, logs, msg) == Out(<<>>, Append(logs, Log("Error", ctx, msg)))

\* push_instruction!(name, params)
push_instruction(ctx, name, params, logs) ==
    Out(<<Line(ctx, InstructionData(name, params))>>, logs)

\* The logs make_int! leaves: the truncation warning (log_only!), then the
\* parse error (log!).
int_logs(ctx, r) ==
    (IF r.warn THEN <<Log("Warning", ctx, "immediate will be truncated")>> ELSE <<>>)
    \o (IF r.ok THEN <<>> ELSE <<Log("Error", ctx, "could not parse")>>)

\* ------------------------------------------------ operand-mode dispatch
\* Each mode reads the tokens of the line from index i on (the token after
\* the mnemonic) and ends in push_instruction! or in log!(Error, ..).

NoParams(ctx, name, toks, i) ==
    IF Tok(toks, i).t = "None"
        THEN push_instruction(ctx, name, PNone, <<>>)
    ELSE Fail(ctx, <<>>, "expects zero parameters, got")

OneRegister(ctx, name, toks, i) ==
    LET t1 == Tok(toks, i)
        reg == make_register(t1.d)
    IN  IF t1.t = "Register"
            THEN IF reg = Err THEN Fail(ctx, <<>>, "register out of bounds")
                 ELSE IF Tok(toks, i + 1).t = "None"
                     THEN push_instruction(ctx, name, POneRegister(reg), <<>>)
                 ELSE Fail(ctx, <<>>, "unexpected token after register")
        ELSE IF t1.t # "None" THEN Fail(ctx, <<>>, "expectes one register, got")
        ELSE Fail(ctx, <<>>, "requires one register")

OneOrTwoRegisters(ctx, name, toks, i) ==
    LET t1 == Tok(toks, i)
        t2 == Tok(toks, i + 1)
        t3 == Tok(toks, i + 2)
        t4 == Tok(toks, i + 3)
        reg1 == make_register(t1.d)
        reg2 == make_register(t3.d)
    IN  IF t1.t # "Register"
            THEN IF t1.t # "None" THEN Fail(ctx, <<>>, "expects at leat one register, got")
                 ELSE Fail(ctx, <<>>, "expects at least one register")
        ELSE IF reg1 = Err THEN Fail(ctx, <<>>, "register out of bounds")
        ELSE IF t2.t = "None" THEN push_instruction(ctx, name, POneRegister(reg1), <<>>)
        ELSE IF t2.t # "Comma" THEN Fail(ctx, <<>>, "expected ',' after first register, got")
        ELSE IF t3.t # "Register"
            THEN IF t3.t # "None" THEN Fail(ctx, <<>>, "expected a register, got")
                 ELSE Fail(ctx, <<>>, "trailing ','s are not allowed")
        ELSE IF reg2 = Err THEN Fail(ctx, <<>>, "register out of bounds")
        ELSE IF t4.t = "None" THEN push_instruction(ctx, name, PTwoRegisters(reg1, reg2), <<>>)
        ELSE Fail(ctx, <<>>, "unexpected token after second register")

OneRegisterAndImmediate(ctx, name, toks, i) ==
    LET t1 == Tok(toks, i)
        t2 == Tok(toks, i + 1)
        t3 == Tok(toks, i + 2)
        t4 == Tok(toks, i + 3)
        reg == make_register(t1.d)
        r == make_int(t3.d, 8)
    IN  IF t1.t # "Register"
            THEN IF t1.t # "None" THEN Fail(ctx, <<>>, "expects one register and an immediate, got")
                 ELSE Fail(ctx, <<>>, "expects one register and an immediate")
        ELSE IF reg = Err THEN Fail(ctx, <<>>, "register out of bounds")
        ELSE IF t2.t # "Comma"
            THEN IF t2.t # "None" THEN Fail(ctx, <<>>, "expected ',' after register, got")
                 ELSE Fail(ctx, <<>>, "expects one register and an immediate")
        ELSE IF t3.t # "Immediate"
            THEN IF t3.t # "None" THEN Fail(ctx, <<>>, "expected a regsiter, got")
                 ELSE Fail(ctx, <<>>, "trailing ','s are not allowed")
        ELSE IF ~r.ok THEN Out(<<>>, int_logs(ctx, r))
        ELSE IF t4.t = "None"
            THEN push_instruction(ctx, name, POneRegisterImmediate(reg, r.val), int_logs(ctx, r))
        ELSE Fail(ctx, int_logs(ctx, r), "unexpected token after immediate")

TwoRegisters(ctx, name, toks, i) ==
    LET t1 == Tok(toks, i)
        t2 == Tok(toks, i + 1)
        t3 == Tok(toks, i + 2)
        t4 == Tok(toks, i + 3)
        reg1 == make_register(t1.d)
        reg2 == make_register(t3.d)
    IN  IF t1.t # "Register"
            THEN IF t1.t # "None" THEN Fail(ctx, <<>>, "expects two registers, got")
                 ELSE Fail(ctx, <<>>, "expects two registers")
        ELSE IF reg1 = Err THEN Fail(ctx, <<>>, "register out of bounds")
        ELSE IF t2.t # "Comma"
            THEN IF t2.t # "None" THEN Fail(ctx, <<>>, "expected ',' after first register, got")
                 ELSE Fail(ctx, <<>>, "expects two registers")
        ELSE IF t3.t # "Register"
            THEN IF t3.t # "None" THEN Fail(ctx, <<>>, "expected a regsiter, got")
                 ELSE Fail(ctx, <<>>, "expects two registers")
        ELSE IF reg2 = Err THEN Fail(ctx, <<>>, "register out of bounds")
        ELSE IF t4.t = "None" THEN push_instruction(ctx, name, PTwoRegisters(reg1, reg2), <<>>)
        ELSE Fail(ctx, <<>>, "unexpected token after second register")

TwoRegistersOrImmediate(ctx, name, toks, i) ==
    LET t1 == Tok(toks, i)
        t2 == Tok(toks, i + 1)
        t3 == Tok(toks, i + 2)
        t4 == Tok(toks, i + 3)
        t5 == Tok(toks, i + 4)
        t6 == Tok(toks, i + 5)
        reg1 == make_register(t1.d)
        reg2 == make_register(t3.d)
        r3 == make_int(t3.d, 8)
        r5 == make_int(t5.d, 8)
    IN  IF t1.t # "Register"
            THEN IF t1.t # "None" THEN Fail(ctx, <<>>, "expects at least two parameters, got")
                 ELSE Fail(ctx, <<>>, "expects at least two parameters")
        ELSE IF reg1 = Err THEN Fail(ctx, <<>>, "register out of bounds")
        ELSE IF t2.t # "Comma"
            THEN IF t2.t # "None" THEN Fail(ctx, <<>>, "expected ',' after first register, got")
                 ELSE Fail(ctx, <<>>, "expects two registers")
        ELSE IF t3.t = "Immediate"
            THEN IF t4.t # "None" THEN Fail(ctx, <<>>, "unexpected token after immediate")
                 ELSE IF ~r3.ok THEN Out(<<>>, int_logs(ctx, r3))
                 ELSE push_instruction(ctx, name, POneRegisterImmediate(reg1, r3.val), int_logs(ctx, r3))
        ELSE IF t3.t # "Register"
            THEN IF t3.t # "None" THEN Fail(ctx, <<>>, "expected a regsiter or an immediate, got")
                 ELSE Fail(ctx, <<>>, "expects as least two parameters")
        ELSE IF reg2 = Err THEN Fail(ctx, <<>>, "register out of bounds")
        ELSE IF t4.t = "None" THEN push_instruction(ctx, name, PTwoRegisters(reg1, reg2), <<>>)
        ELSE IF t4.t # "Comma" THEN Fail(ctx, <<>>, "expected ',' after second register, got")
        ELSE IF t5.t # "Immediate"
            THEN IF t5.t # "None" THEN Fail(ctx, <<>>, "expected an immediate, got")
                 ELSE Fail(ctx, <<>>, "expects two registers and an immediate")
        ELSE IF ~r5.ok THEN Out(<<>>, int_logs(ctx, r5))
        ELSE IF t6.t = "None"
            THEN push_instruction(ctx, name, PTwoRegistersImmedaite(reg1, reg2, r5.val), int_logs(ctx, r5))
        ELSE Fail(ctx, int_logs(ctx, r5), "unexpected token after immediate")

\* Mutation of long_immediate: the literal is parsed as a u8, as in the
\* modes that take an 8-bit immediate.
long_immediate_u8(ctx, name, toks, i) ==
    LET r1 == make_int(Tok(toks, i).d, 8)
    IN  IF Tok(toks, i + 1).t # "None" THEN Fail(ctx, <<>>, "unexpected token after immediate")
        ELSE IF ~r1.ok THEN Out(<<>>, int_logs(ctx, r1))
        ELSE push_instruction(ctx, name, PLongImmediate(r1.val), int_logs(ctx, r1))

\* Some(Token::Immediate(i)) as the first operand: a 16-bit immediate, and
\* nothing after it.
long_immediate(ctx, name, toks, i) ==
    LET r1 == make_int(Tok(toks, i).d, 16)
    IN  IF Tok(toks, i + 1).t # "None" THEN Fail(ctx, <<>>, "unexpected token after immediate")
        ELSE IF ~r1.ok THEN Out(<<>>, int_logs(ctx, r1))
        ELSE push_instruction(ctx, name, PLongImmediate(r1.val), int_logs(ctx, r1))

\* Mutation of label_reference: the label is taken for the immediate 0.
label_reference_zero(ctx, name, toks, i) ==
    IF Tok(toks, i + 1).t # "None" THEN Fail(ctx, <<>>, "unexpected token after label")
    ELSE push_instruction(ctx, name, PLongImmediate(0), <<>>)

\* Mutation of label_reference: what follows the label is not looked at.
label_reference_trailing(ctx, name, toks, i) ==
    push_instruction(ctx, name, PLabel(Tok(toks, i).s), <<>>)

\* Some(Token::Ident(l)) as the first operand: a label reference, and nothing
\* after it.
label_reference(ctx, name, toks, i) ==
    IF Tok(toks, i + 1).t # "None" THEN Fail(ctx, <<>>, "unexpected token after label")
    ELSE push_instruction(ctx, name, PLabel(Tok(toks, i).s), <<>>)

TwoRegistersOrLongImmediate(ctx, name, toks, i) ==
    LET t1 == Tok(toks, i)
        t2 == Tok(toks, i + 1)
        t3 == Tok(toks, i + 2)
        t4 == Tok(toks, i + 3)
        reg1 == make_register(t1.d)
        reg2 == make_register(t3.d)
    IN  IF t1.t = "Immediate" THEN long_immediate(ctx, name, toks, i)
        ELSE IF t1.t = "Ident" THEN label_reference(ctx, name, toks, i)
        ELSE IF t1.t # "Register"
            THEN IF t1.t # "None" THEN Fail(ctx, <<>>, "expects two registers, got")
                 ELSE Fail(ctx, <<>>, "expects two registers")
        ELSE IF reg1 = Err THEN Fail(ctx, <<>>, "register out of bounds")
        ELSE IF t2.t # "Comma"
            THEN IF t2.t # "None" THEN Fail(ctx, <<>>, "expected ',' after first register, got")
                 ELSE Fail(ctx, <<>>, "expects two registers")
        ELSE IF t3.t # "Register"
            THEN IF t3.t # "None" THEN Fail(ctx, <<>>, "expected a regsiter, got")
                 ELSE Fail(ctx, <<>>, "expects two registers")
        ELSE IF reg2 = Err THEN Fail(ctx, <<>>, "register out of bounds")
        ELSE IF t4.t = "None" THEN push_instruction(ctx, name, PTwoRegisters(reg1, reg2), <<>>)
        ELSE Fail(ctx, <<>>, "unexpected token after second register")

\* Some(Token::Ident(ins)): the mnemonic, then its operand mode.
\* Mutation of parse_instruction: a one-register mnemonic is read as a
\* one-or-two-registers one.
parse_instruction_one_as_two(ctx, toks, i) ==
    LET name == from_str(to_uppercase(Tok(toks, i).s))
        mode == assemble_info(name).mode
    IN  IF name = "" THEN Fail(ctx, <<>>, "unknown instruction")
        ELSE CASE mode = "NoParams" -> NoParams(ctx, name, toks, i + 1)
               [] mode = "OneRegister" -> OneOrTwoRegisters(ctx, name, toks, i + 1)
               [] mode = "OneOrTwoRegisters" -> OneOrTwoRegisters(ctx, name, toks, i + 1)
               [] mode = "OneRegisterAndImmediate" -> OneRegisterAndImmediate(ctx, name, toks, i + 1)
               [] mode = "TwoRegisters" -> TwoRegisters(ctx, name, toks, i + 1)
               [] mode = "TwoRegistersOrImmediate" -> TwoRegistersOrImmediate(ctx, name, toks, i + 1)
               [] mode = "TwoRegistersOrLongImmediate" -> TwoRegistersOrLongImmediate(ctx, name, toks, i + 1)

parse_instruction(ctx, toks, i) ==
    LET name == from_str(to_uppercase(Tok(toks, i).s))
        mode == assemble_info(name).mode
    IN  IF name = "" THEN Fail(ctx, <<>>, "unknown instruction")
        ELSE CASE mode = "NoParams" -> NoParams(ctx, name, toks, i + 1)
               [] mode = "OneRegister" -> OneRegister(ctx, name, toks, i + 1)
               [] mode = "OneOrTwoRegisters" -> OneOrTwoRegisters(ctx, name, toks, i + 1)
               [] mode = "OneRegisterAndImmediate" -> OneRegisterAndImmediate(ctx, name, toks, i + 1)
               [] mode = "TwoRegisters" -> TwoRegisters(ctx, name, toks, i + 1)
               [] mode = "TwoRegistersOrImmediate" -> TwoRegistersOrImmediate(ctx, name, toks, i + 1)
               [] mode = "TwoRegistersOrLongImmediate" -> TwoRegistersOrLongImmediate(ctx, name, toks, i + 1)

\* ------------------------------------------------------------ directives

\* ParseOptions: Some(options) with the file's path, or None.
SomeOptions(origin) == [some |-> TRUE, origin |-> origin]
NoOptions == [some |-> FALSE, origin |-> <<>>]

\* The file name parse_raw gives its lines and logs.
file_name(options) == IF options.some THEN options.origin ELSE <<"[unknown]">>

\* Path::parent: the path without its last component; "" for a bare file
\* name, and (unwrap_or_else) for a path that has no parent.
RECURSIVE parent(_)
parent(path) ==
    IF path = <<>> THEN <<>>
    ELSE IF path[Len(path)] = "/" THEN SubSeq(path, 1, Len(path) - 1)
    ELSE parent(SubSeq(path, 1, Len(path) - 1))

\* Path::join: an absolute path replaces the base.
join(base, path) ==
    IF path # <<>> /\ Head(path) = "/" THEN path
    ELSE IF base = <<>> THEN path
    ELSE base \o <<"/">> \o path

\* Mutation of parse_line_directive: the offset is parsed as a u8.
parse_line_directive_u8(ctx, toks, i) ==
    LET t1 == Tok(toks, i)
        t2 == Tok(toks, i + 1)
        r == make_int(t1.d, 8)
    IN  IF t1.t # "Immediate"
            THEN IF t1.t # "None" THEN Fail(ctx, <<>>, "expected an immediate for line offset, got")
                 ELSE Fail(ctx, <<>>, "expected an immediate for line offset")
        ELSE IF t2.t # "None" THEN Fail(ctx, <<>>, "unexpected token after line offset")
        ELSE IF ~r.ok THEN Out(<<>>, int_logs(ctx, r))
        ELSE Out(<<Line(ctx, LineDirective(r.val))>>, int_logs(ctx, r))

\* "line": one immediate and nothing after it.
parse_line_directive(ctx, toks, i) ==
    LET t1 == Tok(toks, i)
        t2 == Tok(toks, i + 1)
        r == make_int(t1.d, 16)
    IN  IF t1.t # "Immediate"
            THEN IF t1.t # "None" THEN Fail(ctx, <<>>, "expected an immediate for line offset, got")
                 ELSE Fail(ctx, <<>>, "expected an immediate for line offset")
        ELSE IF t2.t # "None" THEN Fail(ctx, <<>>, "unexpected token after line offset")
        ELSE IF ~r.ok THEN Out(<<>>, int_logs(ctx, r))
        ELSE Out(<<Line(ctx, LineDirective(r.val))>>, int_logs(ctx, r))

\* "db": the inner `loop` over the items. The `continue` of log! is inside
\* this loop, so after an error (a bad literal, an unexpected token) the loop
\* goes on with the next token of the same line. At the end of the line with
\* no data byte the loop logs the "empty db field" warning and goes round
\* again, and lexer.next() is None again: that iteration never ends (spin).
RECURSIVE db_loop(_, _, _, _, _)

\* Mutation of db_loop: a label item goes to the front of data_bytes.
db_loop_prepends(ctx, toks, i, data_bytes, logs) ==
    LET t == Tok(toks, i)
        r == make_int(t.d, 8)
    IN  CASE t.t = "Immediate" ->
                db_loop(ctx, toks, i + 1,
                        IF r.ok THEN Append(data_bytes, DataByte(r.val)) ELSE data_bytes,
                        logs \o int_logs(ctx, r))
          [] t.t = "Ident" -> db_loop(ctx, toks, i + 1, <<DataLabel(t.s)>> \o data_bytes, logs)
          [] t.t = "String" ->
                db_loop(ctx, toks, i + 1,
                        data_bytes \o [k \in 1..Len(t.d) |-> DataByte(as_bytes(t.d)[k])], logs)
          [] t.t = "None" ->
                IF data_bytes = <<>>
                    THEN [lines |-> <<>>,
                          logs |-> Append(logs, Log("Warning", ctx, "empty db field")),
                          spin |-> TRUE]
                ELSE Out(<<Line(ctx, DBDirective(data_bytes))>>, logs)
          [] OTHER ->
                db_loop(ctx, toks, i + 1, data_bytes,
                        Append(logs, Log("Error", ctx, "unexpected token in db field")))

db_loop(ctx, toks, i, data_bytes, logs) ==
    LET t == Tok(toks, i)
        r == make_int(t.d, 8)
    IN  CASE t.t = "Immediate" ->
                db_loop(ctx, toks, i + 1,
                        IF r.ok THEN Append(data_bytes, DataByte(r.val)) ELSE data_bytes,
                        logs \o int_logs(ctx, r))
          [] t.t = "Ident" -> db_loop(ctx, toks, i + 1, Append(data_bytes, DataLabel(t.s)), logs)
          [] t.t = "String" ->
                db_loop(ctx, toks, i + 1,
                        data_bytes \o [k \in 1..Len(t.d) |-> DataByte(as_bytes(t.d)[k])], logs)
          [] t.t = "None" ->
                IF data_bytes = <<>>
                    THEN [lines |-> <<>>,
                          logs |-> Append(logs, Log("Warning", ctx, "empty db field")),
                          spin |-> TRUE]
                ELSE Out(<<Line(ctx, DBDirective(data_bytes))>>, logs)
          [] OTHER ->
                db_loop(ctx, toks, i + 1, data_bytes,
                        Append(logs, Log("Error", ctx, "unexpected token in db field")))

RECURSIVE parse_file(_, _)

\* Mutation of parse_include: the logs of the included file are not kept.
parse_include_lines_only(ctx, toks, i, options, fs) ==
    LET t1 == Tok(toks, i)
        base == IF options.some THEN parent(options.origin) ELSE <<>>
    IN  IF t1.t = "String" THEN [parse_file(join(base, t1.d), fs) EXCEPT !.logs = <<>>]
        ELSE IF t1.t # "None" THEN Fail(ctx, <<>>, "expected a string file path, got")
        ELSE Fail(ctx, <<>>, "expected a string file path")

\* "include": a string path, looked up beside the including file; the lines
\* and logs of the included file are spliced in.
parse_include(ctx, toks, i, options, fs) ==
    LET t1 == Tok(toks, i)
        base == IF options.some THEN parent(options.origin) ELSE <<>>
    IN  IF t1.t = "String" THEN parse_file(join(base, t1.d), fs)
        ELSE IF t1.t # "None" THEN Fail(ctx, <<>>, "expected a string file path, got")
        ELSE Fail(ctx, <<>>, "expected a string file path")

\* Some(Token::Directive(dir))
parse_directive(ctx, toks, i, options, fs) ==
    LET dir == Tok(toks, i).s
    IN  CASE dir = "include" -> parse_include(ctx, toks, i + 1, options, fs)
          [] dir = "line" -> parse_line_directive(ctx, toks, i + 1)
          [] dir = "db" -> db_loop(ctx, toks, i + 1, <<>>, <<>>)
          [] OTHER -> Fail(ctx, <<>>, "unknown directive")

\* Mutation of with_label: the label declaration is not pushed.
with_label_dropped(pre, rest) ==
    [lines |-> rest.lines, logs |-> rest.logs, spin |-> rest.spin]

\* The label declaration of a line, pushed before the rest of the line is
\* looked at.
with_label(pre, rest) ==
    [lines |-> pre \o rest.lines, logs |-> rest.logs, spin |-> rest.spin]

\* One iteration of `for (line, source) in source.lines().enumerate()`: an
\* optional label declaration, then a directive, an instruction or nothing.
parse_source_line(toks, line, options, fs) ==
    LET ctx == [line |-> line, origin |-> file_name(options)]
        first == Tok(toks, 1)
        labelled == first.t = "Label"
        i == IF labelled THEN 2 ELSE 1
        first_token == Tok(toks, i)
    IN  with_label(IF labelled THEN <<Line(ctx, LabelData(first.s))>> ELSE <<>>,
                   CASE first_token.t = "Directive" -> parse_directive(ctx, toks, i, options, fs)
                     [] first_token.t = "Ident" -> parse_instruction(ctx, toks, i)
                     [] first_token.t = "None" -> Out(<<>>, <<>>)
                     [] OTHER -> Fail(ctx, <<>>, "unexpected token"))

\* lines.push / logs.push of one iteration after those of the earlier ones.
extend(acc, r) ==
    [lines |-> acc.lines \o r.lines, logs |-> acc.logs \o r.logs, spin |-> r.spin]

\* parse_raw from source line k (1-based here, line k - 1 in the logs) on,
\* after the lines and logs of the earlier lines. A line whose iteration
\* never ends keeps the loop from reaching the lines after it.
RECURSIVE parse_from(_, _, _, _, _)
parse_from(source, k, options, fs, acc) ==
    IF k > Len(source) \/ acc.spin THEN acc
    ELSE parse_from(source, k + 1, options, fs,
                    extend(acc, parse_source_line(source[k], k - 1, options, fs)))

parse_raw(source, options, fs) == parse_from(source, 1, options, fs, Out(<<>>, <<>>))

\* Mutation of parse_file: a file that cannot be opened or read gives nothing.
parse_file_silent(origin, fs) ==
    IF origin \notin DOMAIN fs THEN Out(<<>>, <<>>)
    ELSE IF ~fs[origin].readable THEN Out(<<>>, <<>>)
    ELSE parse_raw(fs[origin].contents, SomeOptions(origin), fs)

\* parse_file: a file that cannot be opened or read gives no line and one
\* IOError. fs maps a path to [readable, contents]; a path outside its
\* domain does not exist.
parse_file(origin, fs) ==
    IF origin \notin DOMAIN fs THEN Out(<<>>, <<IOError("No such file or directory", origin)>>)
    ELSE IF ~fs[origin].readable
        THEN Out(<<>>, <<IOError("stream did not contain valid UTF-8", origin)>>)
    ELSE parse_raw(fs[origin].contents, SomeOptions(origin), fs)

\* --------------------------------------------------------- code generator
\* assemble_lines(lines, logs): one forward pass over the parsed lines with
\* a symbol table and a list of pending patches, then the resolution of the
\* patches. The generator's state is [buffer, symbols, patches, logs].

\* The byte a 2-byte placeholder is made of.
Placeholder == 255

\* The symbol table: a set of [name, offset], one entry per name.
declared(symbols, name) == \E e \in symbols : e.name = name
lookup(symbols, name) == (CHOOSE e \in symbols : e.name = name).offset
insert(symbols, name, offset) ==
    {e \in symbols : e.name # name} \cup {[name |-> name, offset |-> offset]}

Patch(label, offset, line) ==
    [label |-> label, offset |-> offset, line |-> line.line, origin |-> line.origin]

\* Mutation of gen_label: the first declaration of a name is kept.
gen_label_keeps_first(g, line) ==
    IF declared(g.symbols, line.data.name)
        THEN [g EXCEPT !.logs = Append(g.logs, Log("Error", line, "declared multiple times"))]
    ELSE [g EXCEPT !.symbols = insert(g.symbols, line.data.name, Len(g.buffer))]

\* Label declaration: name -> current buffer length; a name already there is
\* an error, and is overwritten.
gen_label(g, line) ==
    [g EXCEPT !.symbols = insert(g.symbols, line.data.name, Len(g.buffer)),
              !.logs = IF declared(g.symbols, line.data.name)
                           THEN Append(g.logs, Log("Error", line, "declared multiple times"))
                       ELSE g.logs]

\* `.line offset`: an offset behind the end of the buffer is an error;
\* otherwise zero bytes up to offset, with a warning when their number is
\* odd.
gen_line_directive(g, line) ==
    LET offset == line.data.n
        len == Len(g.buffer)
    IN  IF offset < len
            THEN [g EXCEPT !.logs = Append(g.logs, Log("Error", line, "cannot move backward"))]
        ELSE [g EXCEPT !.buffer = g.buffer \o [k \in 1..(offset - len) |-> 0],
                       !.logs = IF (offset - len) % 2 = 1
                                    THEN Append(g.logs, Log("Warning", line, "odd padding breaks alignment"))
                                ELSE g.logs]

\* `.db`: a literal byte as it is, a label as a 2-byte placeholder with a
\* pending patch at its offset.
RECURSIVE gen_db(_, _, _)
gen_db(g, line, k) ==
    IF k > Len(line.data.db) THEN g
    ELSE LET item == line.data.db[k]
         IN  IF item.k = "Byte"
                 THEN gen_db([g EXCEPT !.buffer = Append(g.buffer, item.b)], line, k + 1)
             ELSE gen_db([g EXCEPT !.buffer = g.buffer \o <<Placeholder, Placeholder>>,
                                   !.patches = Append(g.patches, Patch(item.l, Len(g.buffer), line))],
                         line, k + 1)

\* The effective (registerA, registerB) of a payload: one register fills
\* both slots.
operands(p) ==
    CASE p.k \in {"OneRegister", "OneRegisterImmediate"} -> <<p.a, p.a>>
      [] p.k \in {"TwoRegisters", "TwoRegistersImmedaite"} -> <<p.a, p.b>>
      [] OTHER -> <<0, 0>>

\* RegisterMap: the operands reordered into (low nibble, high nibble).
mapped(map, ab) ==
    CASE map = "AA" -> <<ab[1], ab[1]>>
      [] map = "AB" -> <<ab[1], ab[2]>>
      [] map = "BA" -> <<ab[2], ab[1]>>

nibble_byte(m) == BitOr(BitAnd(m[1], 15), Shl8(m[2], 4))

\* The bytes of one instruction.
encode(name, p) ==
    LET info == assemble_info(name)
        hi == nibble_byte(mapped(info.map, operands(p)))
    IN  CASE p.k \in {"None", "OneRegister", "TwoRegisters"} -> <<info.op, hi>>
          [] p.k \in {"OneRegisterImmediate", "TwoRegistersImmedaite"} ->
                <<BitOr(info.op, 128), hi, p.i>>
          [] p.k = "LongImmediate" -> <<BitOr(info.op, 128), p.i % 256, p.i \div 256>>
          [] p.k = "Label" -> <<BitOr(info.op, 128), Placeholder, Placeholder>>

gen_instruction(g, line) ==
    LET p == line.data.p
    IN  [g EXCEPT !.buffer = g.buffer \o encode(line.data.name, p),
                  !.patches = IF p.k = "Label"
                                  THEN Append(g.patches, Patch(p.l, Len(g.buffer) + 1, line))
                              ELSE g.patches]

\* One step of the forward pass.
gen_line(g, line) ==
    CASE line.data.k = "Label" -> gen_label(g, line)
      [] line.data.k = "Line" -> gen_line_directive(g, line)
      [] line.data.k = "DB" -> gen_db(g, line, 1)
      [] line.data.k = "Instruction" -> gen_instruction(g, line)

\* Mutation of patch_le: the high byte first.
patch_be(buffer, offset, v) ==
    [buffer EXCEPT ![offset + 1] = (v \div 256) % 256, ![offset + 2] = v % 256]

\* buffer with the two bytes at offset (0-based) replaced by the
\* little-endian encoding of v.
patch_le(buffer, offset, v) ==
    [buffer EXCEPT ![offset + 1] = v % 256, ![offset + 2] = (v \div 256) % 256]

RECURSIVE resolve(_, _)

\* Mutation of resolve: the placeholder of an unresolved label is zeroed.
resolve_zeroes(g, k) ==
    IF k > Len(g.patches) THEN g
    ELSE LET pt == g.patches[k]
         IN  IF declared(g.symbols, pt.label)
                 THEN resolve([g EXCEPT !.buffer =
                                   patch_le(g.buffer, pt.offset, lookup(g.symbols, pt.label))],
                              k + 1)
             ELSE resolve([g EXCEPT !.buffer = patch_le(g.buffer, pt.offset, 0),
                                    !.logs = Append(g.logs, Log("Error", pt, "unresolved symbol"))],
                          k + 1)

\* After the pass: each pending patch, in order, is written when its label
\* is in the symbol table and reported as unresolved when it is not.
resolve(g, k) ==
    IF k > Len(g.patches) THEN g
    ELSE LET pt == g.patches[k]
         IN  IF declared(g.symbols, pt.label)
                 THEN resolve([g EXCEPT !.buffer =
                                   patch_le(g.buffer, pt.offset, lookup(g.symbols, pt.label))],
                              k + 1)
             ELSE resolve([g EXCEPT !.logs = Append(g.logs, Log("Error", pt, "unresolved symbol"))],
                          k + 1)

GenInit(logs) == [buffer |-> <<>>, symbols |-> {}, patches |-> <<>>, logs |-> logs]

RECURSIVE gen_from(_, _, _)
gen_from(g, lines, k) ==
    IF k > Len(lines) THEN g ELSE gen_from(gen_line(g, lines[k]), lines, k + 1)

assemble_lines(lines, logs) == resolve(gen_from(GenInit(logs), lines, 1), 1)

\* ------------------------------------------------- codegen.rs: assemble
\* The generator of src/src/codegen.rs: parse_line builds an
\* InstructionBuilder from the tokens of a line, InstructionBuilder::assemble
\* pushes its bytes, assemble does both for each non-empty line and stops at
\* the first Err. Its tokens carry numbers: Register(u8), Immediate(u8).

ORegister(n) == [t |-> "Register", s |-> "", n |-> n]
OImmediate(n) == [t |-> "Immediate", s |-> "", n |-> n]

\* Option<T>
Some(v) == [some |-> TRUE, v |-> v]
None == [some |-> FALSE, v |-> 0]

\* Instruction of codegen.rs, its from_str ("" standing for None) and its
\* assemble_info.
codegen_Instruction ==
    { "NOP", "CLR", "SER", "NOT", "TWO", "AND", "NND", "ORR", "NOR", "XOR",
      "XNR", "ADD", "ADC", "SUB", "SBC", "INC", "DEC", "MOV", "MVN" }

codegen_from_str(name) == IF name \in codegen_Instruction THEN name ELSE ""

codegen_assemble_info(name) ==
    CASE name = "CLR" -> Info(32, "OneRegister", "AA")
      [] name = "SER" -> Info(48, "OneRegister", "AA")
      [] name = "NOT" -> Info(33, "TwoRegistersOrImmediate", "BA")
      [] name = "TWO" -> Info(49, "TwoRegistersOrImmediate", "BA")
      [] name = "AND" -> Info(34, "TwoRegistersOrImmediate", "BA")
      [] name = "NND" -> Info(50, "TwoRegistersOrImmediate", "BA")
      [] name = "ORR" -> Info(35, "TwoRegistersOrImmediate", "BA")
      [] name = "NOR" -> Info(51, "TwoRegistersOrImmediate", "BA")
      [] name = "XOR" -> Info(36, "TwoRegistersOrImmediate", "BA")
      [] name = "XNR" -> Info(52, "TwoRegistersOrImmediate", "BA")
      [] name = "ADD" -> Info(37, "TwoRegistersOrImmediate", "BA")
      [] name = "ADC" -> Info(53, "TwoRegistersOrImmediate", "BA")
      [] name = "SUB" -> Info(38, "TwoRegistersOrImmediate", "BA")
      [] name = "SBC" -> Info(54, "TwoRegistersOrImmediate", "BA")
      [] name = "INC" -> Info(39, "OneOrTwoRegisters", "BA")
      [] name = "DEC" -> Info(55, "OneOrTwoRegisters", "BA")
      [] name = "MOV" -> Info(40, "TwoRegistersOrImmediate", "BA")
      [] name = "MVN" -> Info(56, "TwoRegistersOrImmediate", "BA")
      [] OTHER -> Info(0, "NoParams", "AB")

\* InstructionBuilder
InstructionBuilder(line, name, a, b, immediate) ==
    [line |-> line, name |-> name, a |-> a, b |-> b, immediate |-> immediate]

\* Result<T>
Ok(v) == [ok |-> TRUE, v |-> v, err |-> ""]
ErrOf(msg) == [ok |-> FALSE, v |-> <<>>, err |-> msg]

\* Mutation of builder_bytes: the first mapped register in the high nibble.
builder_bytes_swapped(info, a, b, i) ==
    LET m == CASE info.map = "AA" -> <<a, a>>
               [] info.map = "AB" -> <<a, b>>
               [] info.map = "BA" -> <<b, a>>
               [] info.map = "BB" -> <<b, b>>
        lo == info.op
        hi == BitOr(BitAnd(m[2], 15), BitAnd(Shl8(m[1], 4), 240))
    IN  IF i.some THEN Ok(<<BitOr(lo, 128), hi, i.v>>) ELSE Ok(<<lo, hi>>)

\* Mutation of builder_bytes: the second mapped register is not shifted.
builder_bytes_unshifted(info, a, b, i) ==
    LET m == CASE info.map = "AA" -> <<a, a>>
               [] info.map = "AB" -> <<a, b>>
               [] info.map = "BA" -> <<b, a>>
               [] info.map = "BB" -> <<b, b>>
        lo == info.op
        hi == BitOr(BitAnd(m[1], 15), BitAnd(m[2], 240))
    IN  IF i.some THEN Ok(<<BitOr(lo, 128), hi, i.v>>) ELSE Ok(<<lo, hi>>)

\* (a, b, i), then the register map, then lo and hi, then the bytes pushed.
builder_bytes(info, a, b, i) ==
    LET m == CASE info.map = "AA" -> <<a, a>>
               [] info.map = "AB" -> <<a, b>>
               [] info.map = "BA" -> <<b, a>>
               [] info.map = "BB" -> <<b, b>>
        lo == info.op
        hi == BitOr(BitAnd(m[1], 15), BitAnd(Shl8(m[2], 4), 240))
    IN  IF i.some THEN Ok(<<BitOr(lo, 128), hi, i.v>>) ELSE Ok(<<lo, hi>>)

\* Mutation of InstructionBuilder_assemble: register 0 stands in for the
\* second register that is not given.
InstructionBuilder_assemble_zero_b(self) ==
    LET info == codegen_assemble_info(self.name)
    IN  CASE info.mode = "OneRegister" ->
                IF self.a.some /\ ~self.b.some /\ ~self.immediate.some
                    THEN builder_bytes(info, self.a.v, self.a.v, None)
                ELSE ErrOf("requires only one register")
          [] info.mode = "OneOrTwoRegisters" ->
                IF self.a.some /\ self.b.some /\ ~self.immediate.some
                    THEN builder_bytes(info, self.a.v, self.b.v, None)
                ELSE IF self.a.some /\ ~self.b.some /\ ~self.immediate.some
                    THEN builder_bytes(info, self.a.v, 0, None)
                ELSE IF self.immediate.some THEN ErrOf("cannot accept an immediate")
                ELSE ErrOf("requires at least one register")
          [] info.mode = "TwoRegistersOrImmediate" ->
                IF ~self.a.some THEN ErrOf("requires at least two operands")
                ELSE IF self.b.some
                    THEN builder_bytes(info, self.a.v, self.b.v, self.immediate)
                ELSE IF self.immediate.some
                    THEN builder_bytes(info, self.a.v, 0, self.immediate)
                ELSE ErrOf("requires at least two operands")
          [] OTHER -> ErrOf("NOT IMPLEMENTED LOL")

\* InstructionBuilder::assemble: Ok(the bytes pushed to the buffer) or Err.
InstructionBuilder_assemble(self) ==
    LET info == codegen_assemble_info(self.name)
    IN  CASE info.mode = "OneRegister" ->
                IF self.a.some /\ ~self.b.some /\ ~self.immediate.some
                    THEN builder_bytes(info, self.a.v, self.a.v, None)
                ELSE ErrOf("requires only one register")
          [] info.mode = "OneOrTwoRegisters" ->
                IF self.a.some /\ self.b.some /\ ~self.immediate.some
                    THEN builder_bytes(info, self.a.v, self.b.v, None)
                ELSE IF self.a.some /\ ~self.b.some /\ ~self.immediate.some
                    THEN builder_bytes(info, self.a.v, self.a.v, None)
                ELSE IF self.immediate.some THEN ErrOf("cannot accept an immediate")
                ELSE ErrOf("requires at least one register")
          [] info.mode = "TwoRegistersOrImmediate" ->
                IF ~self.a.some THEN ErrOf("requires at least two operands")
                ELSE IF self.b.some
                    THEN builder_bytes(info, self.a.v, self.b.v, self.immediate)
                ELSE IF self.immediate.some
                    THEN builder_bytes(info, self.a.v, self.a.v, self.immediate)
                ELSE ErrOf("requires at least two operands")
          [] OTHER -> ErrOf("NOT IMPLEMENTED LOL")

\* The register operand of parse_line: Register::from_u8(r).ok_or_else(..)?
reg_operand(r) == from_u8(r) # Err

\* parse_line after the second operand, a register: an optional comma and a
\* third operand, an immediate.
parse_third(out, toks) ==
    LET t4 == Tok(toks, 5)
        t5 == Tok(toks, 6)
        t6 == Tok(toks, 7)
    IN  IF t4.t = "None" THEN Ok(out)
        ELSE IF t4.t # "Comma" THEN ErrOf("Expected a ',' after the second operand")
        ELSE IF t5.t = "None" THEN ErrOf("Unexpected trailing ','")
        ELSE IF t5.t # "Immediate" THEN ErrOf("Expected immediate as third operand")
        ELSE IF t6.t # "None" THEN ErrOf("Unexpected token after third operand")
        ELSE Ok([out EXCEPT !.immediate = Some(t5.n)])

\* parse_line after the first operand: an optional comma and a second
\* operand, a register or an immediate.
parse_second(out, toks) ==
    LET t2 == Tok(toks, 3)
        t3 == Tok(toks, 4)
    IN  IF t2.t = "None" THEN Ok(out)
        ELSE IF t2.t # "Comma" THEN ErrOf("Expected a ',' after the first operand")
        ELSE IF t3.t = "Register"
            THEN IF reg_operand(t3.n) THEN parse_third([out EXCEPT !.b = Some(t3.n)], toks)
                 ELSE ErrOf("Register out of bounds")
        ELSE IF t3.t = "Immediate"
            THEN IF Tok(toks, 5).t # "None" THEN ErrOf("Unexpected token after immediate operand")
                 ELSE Ok([out EXCEPT !.immediate = Some(t3.n)])
        ELSE IF t3.t = "None" THEN ErrOf("Unexpected trailing ','")
        ELSE ErrOf("Expected register or immediate as second operand")

\* str::to_ascii_uppercase
to_ascii_uppercase(s) == to_uppercase(s)

\* parse_line(lexer, line): Ok(InstructionBuilder) or Err.
parse_line(toks, line) ==
    LET t0 == Tok(toks, 1)
        t1 == Tok(toks, 2)
        name == codegen_from_str(to_ascii_uppercase(t0.s))
        out == InstructionBuilder(line, name, None, None, None)
    IN  IF t0.t = "None" THEN ErrOf("was parsed as empty")
        ELSE IF t0.t # "Ident" THEN ErrOf("Unexpected token")
        ELSE IF name = "" THEN ErrOf("Unknown instruction")
        ELSE IF t1.t = "None" THEN Ok(out)
        ELSE IF t1.t # "Register" THEN ErrOf("Expected register as first operand")
        ELSE IF ~reg_operand(t1.n) THEN ErrOf("Register out of bounds")
        ELSE parse_second([out EXCEPT !.a = Some(t1.n)], toks)

\* One iteration of assemble: parse_line(..)? then instruction.assemble(..)?
assemble_line(toks, line) ==
    IF parse_line(toks, line).ok
        THEN InstructionBuilder_assemble(parse_line(toks, line).v)
    ELSE parse_line(toks, line)

\* ------------------------------------------------------------ the machine
\* assemble_x69: the source is parsed line by line, then the parsed lines
\* are generated one by one, then the pending patches are resolved.

VARIABLES
    source,     \* the token lines of the program read so far
    lines,      \* parse_raw's lines
    logs,       \* the logs, of the parser and then of the generator
    pc,         \* "parse", "spin", "gen", "done"; "int", "int_done"
    gi,         \* the parsed line the generator is at (1-based)
    buffer,     \* the binary
    symbols,    \* the symbol table
    patches,    \* the pending patches
    im,         \* the literal handed to make_int!
    bits,       \* the width of its target
    parsed      \* what make_int! made of it

vars == <<source, lines, logs, pc, gi, buffer, symbols, patches, im, bits, parsed>>

\* The files an `.include` can name.
Files == [p \in {} |-> [readable |-> TRUE, contents |-> <<>>]]

\* Text of the literals the lines are made of.
t0 == <<"0">>
t1 == <<"1">>
t3 == <<"3">>
t123 == <<"1", "2", "3">>
t256 == <<"2", "5", "6">>
t258 == <<"2", "5", "8">>
t513 == <<"5", "1", "3">>
tDEAD == <<"0", "x", "D", "E", "A", "D">>
t10103 == <<"0", "x", "1", "0", "1", "0", "3">>
thi == <<"h", "i">>

\* The source lines of the programs that are assembled.
GenSource ==
    { <<TLabel("a")>>,
      <<TIdent("jmp"), TIdent("a")>>,
      <<TLabel("b"), TIdent("jmp"), TIdent("a")>>,
      <<TLabel("a"), TIdent("jmpz"), TIdent("b")>>,
      <<TIdent("jmp"), TImmediate(t513)>>,
      <<TDirective("line"), TImmediate(t258)>>,
      <<TDirective("line"), TImmediate(t3)>>,
      <<TDirective("line"), TImmediate(t10103)>>,
      <<TDirective("db"), TImmediate(t0), TImmediate(t1), TIdent("array"), TString(thi)>>,
      <<TLabel("array"), TIdent("nop")>>,
      <<TDirective("db")>>,
      <<TIdent("add"), TRegister(t1), TComma, TImmediate(tDEAD)>> }

NoInt == IntResult(0, FALSE)

Init ==
    /\ source = <<>>
    /\ lines = <<>>
    /\ logs = <<>>
    /\ pc = "parse"
    /\ gi = 1
    /\ buffer = <<>>
    /\ symbols = {}
    /\ patches = <<>>
    /\ im = <<>>
    /\ bits = 8
    /\ parsed = NoInt

\* The lines and logs of one more source line.
Parsed(toks, r) ==
    /\ source' = Append(source, toks)
    /\ lines' = lines \o r.lines
    /\ logs' = logs \o r.logs
    /\ pc' = IF r.spin THEN "spin" ELSE "parse"

\* parse_raw takes the next source line, one of S, of a source of at most
\* max lines.
ParseLine(S, max) ==
    /\ pc = "parse"
    /\ Len(source) < max
    /\ \E toks \in S :
          Parsed(toks, parse_source_line(toks, Len(source), NoOptions, Files))
    /\ UNCHANGED <<gi, buffer, symbols, patches, im, bits, parsed>>

\* The `.db` loop at the end of a line with no data byte: the warning again.
DbSpin ==
    /\ pc = "spin"
    /\ Len(logs) < MaxLogs
    /\ logs' = Append(logs, logs[Len(logs)])
    /\ UNCHANGED <<source, lines, pc, gi, buffer, symbols, patches, im, bits, parsed>>

\* The source has no more lines: parse_raw returns, assemble_lines starts.
EndParse ==
    /\ pc = "parse"
    /\ pc' = "gen"
    /\ UNCHANGED <<source, lines, logs, gi, buffer, symbols, patches, im, bits, parsed>>

\* The generator's state.
Gen == [buffer |-> buffer, symbols |-> symbols, patches |-> patches, logs |-> logs]

Generated(g) ==
    /\ buffer' = g.buffer
    /\ symbols' = g.symbols
    /\ patches' = g.patches
    /\ logs' = g.logs

\* The forward pass takes the next parsed line.
GenLine ==
    /\ pc = "gen"
    /\ gi <= Len(lines)
    /\ Generated(gen_line(Gen, lines[gi]))
    /\ gi' = gi + 1
    /\ UNCHANGED <<source, lines, pc, im, bits, parsed>>

\* After the pass: the pending patches are resolved.
Resolve ==
    /\ pc = "gen"
    /\ gi > Len(lines)
    /\ Generated(resolve(Gen, 1))
    /\ pc' = "done"
    /\ UNCHANGED <<source, lines, gi, im, bits, parsed>>

Next ==
    \/ ParseLine(GenSource, MaxLines)
    \/ DbSpin
    \/ EndParse
    \/ GenLine
    \/ Resolve

Spec == Init /\ [][Next]_vars

\* --------------------------------------------------------- the parser alone
\* parse_raw over sources with lines that fail.

t2 == <<"2">>
t4 == <<"4">>
t16 == <<"1", "6">>
t255 == <<"2", "5", "5">>
t300 == <<"3", "0", "0">>
t65535 == <<"6", "5", "5", "3", "5">>
t65536 == <<"6", "5", "5", "3", "6">>
t1FF == <<"0", "x", "1", "F", "F">>
tf == <<"f">>

ParseSource ==
    { <<TLabel("a")>>,
      <<TLabel("b"), TIdent("jmp"), TIdent("a")>>,
      <<TLabel("a"), TIdent("bogus")>>,
      <<TIdent("nop")>>,
      <<TIdent("nop"), TRegister(t1)>>,
      <<TDirective("db"), TImmediate(t1), TComma, TImmediate(t2)>>,
      <<TDirective("db"), TImmediate(t256), TImmediate(t1)>>,
      <<TDirective("db"), TImmediate(t256)>>,
      <<TDirective("db")>>,
      <<TLabel("a"), TDirective("db")>>,
      <<TDirective("db"), TImmediate(t1FF), TString(thi), TIdent("x")>>,
      <<TDirective("line"), TImmediate(t65536)>>,
      <<TDirective("line"), TImmediate(t65535)>>,
      <<TDirective("line"), TImmediate(t3), TImmediate(t4)>>,
      <<TIdent("set"), TRegister(t1), TComma, TImmediate(t256)>>,
      <<TIdent("set"), TRegister(t1), TComma, TImmediate(t255)>>,
      <<TIdent("jmp"), TImmediate(t65536)>>,
      <<TIdent("jmp"), TImmediate(t65535)>>,
      <<TIdent("add"), TRegister(t1), TComma, TImmediate(t300)>>,
      <<TIdent("add"), TRegister(t16), TComma, TRegister(t1)>>,
      <<TIdent("inc"), TRegister(t1)>>,
      <<TComma>>,
      <<TDirective("foo")>>,
      <<TDirective("include")>>,
      <<TDirective("include"), TString(tf)>> }

NextParse ==
    \/ ParseLine(ParseSource, MaxParseLines)
    \/ DbSpin

SpecParse == Init /\ [][NextParse]_vars

\* ------------------------------------------------------- make_int! alone

HexDigits == {"0", "1", "a", "F"}

\* 0x and one to MaxHexDigits digits.
HexLiterals ==
    UNION {{<<"0", "x">> \o d : d \in [1..n -> HexDigits]} : n \in 1..MaxHexDigits}

\* 0b and one to MaxBinDigits digits, all but at most two of them the same.
BinLiterals ==
    UNION {{<<"0", "b">> \o [k \in 1..n |-> IF (k = a \/ k = b) = inv THEN "1" ELSE "0"] :
                a \in 0..n, b \in 0..n, inv \in BOOLEAN} : n \in 1..MaxBinDigits}

DecLiterals == {t0, t1, t123, t255, t256, t300, t65535, t65536}

InitInt ==
    /\ source = <<>>
    /\ lines = <<>>
    /\ logs = <<>>
    /\ pc = "int"
    /\ gi = 1
    /\ buffer = <<>>
    /\ symbols = {}
    /\ patches = <<>>
    /\ im \in HexLiterals \cup BinLiterals \cup DecLiterals
    /\ bits \in {8, 16}
    /\ parsed = NoInt

IntDone(r) ==
    /\ parsed' = r
    /\ logs' = int_logs([line |-> 0, origin |-> file_name(NoOptions)], r)

\* make_int!(im, u8) or make_int!(im, u16) on line 0.
MakeInt ==
    /\ pc = "int"
    /\ IntDone(make_int(im, bits))
    /\ pc' = "int_done"
    /\ UNCHANGED <<source, lines, gi, buffer, symbols, patches, im, bits>>

SpecInt == InitInt /\ [][MakeInt]_vars

\* ------------------------------------------------------ codegen.rs alone
\* assemble(source, buffer) over one-line programs with every register
\* pair, and over longer programs of a few lines.

\* A line of white space only, which assemble filters out; a line with no
\* token that is not blank (a comment) is <<>>.
BlankLine == <<[t |-> "Blank", s |-> "", n |-> 0]>>

AsmNames ==
    { "nop", "clr", "ser", "not", "two", "and", "nnd", "orr", "nor", "xor", "xnr",
      "add", "adc", "sub", "sbc", "inc", "dec", "mov", "mvn", "jmp", "bogus" }

Regs == 0..MaxReg

AsmLines ==
    {<<TIdent(m)>> : m \in AsmNames}
    \cup {<<TIdent(m), ORegister(x)>> : m \in AsmNames, x \in Regs}
    \cup {<<TIdent(m), ORegister(x), TComma, ORegister(y)>> :
              m \in AsmNames, x \in Regs, y \in Regs}
    \cup {<<TIdent(m), ORegister(x), TComma, OImmediate(i)>> :
              m \in AsmNames, x \in Regs, i \in {0, 173, 255}}
    \cup {<<TIdent(m), ORegister(x), TComma, ORegister(y), TComma, OImmediate(123)>> :
              m \in AsmNames, x \in Regs, y \in Regs}

ShortAsmLines ==
    { BlankLine,
      <<>>,
      <<TIdent("add"), ORegister(15), TComma, ORegister(0), TComma, OImmediate(123)>>,
      <<TIdent("inc"), ORegister(3)>>,
      <<TIdent("nop")>>,
      <<TIdent("add"), ORegister(1), TComma>>,
      <<TIdent("add"), ORegister(1), TComma, ORegister(2), TComma, OImmediate(3), TComma>>,
      <<TComma>> }

RECURSIVE Programs(_, _)
Programs(S, n) ==
    IF n = 0 THEN {<<>>} ELSE {Append(q, l) : q \in Programs(S, n - 1), l \in S}

\* n lines `add r15, r0, 123`, of three bytes each.
Repeated(n) ==
    [k \in 1..n |-> <<TIdent("add"), ORegister(15), TComma, ORegister(0), TComma, OImmediate(123)>>]

InitAsm ==
    /\ source \in {<<l>> : l \in AsmLines}
                  \cup UNION {Programs(ShortAsmLines, n) : n \in 0..MaxAsmLines}
                  \cup {Repeated(n) : n \in (MaxRepeat - 1)..MaxRepeat}
    /\ lines = <<>>
    /\ logs = <<>>
    /\ pc = "asm"
    /\ gi = 1
    /\ buffer = <<>>
    /\ symbols = {}
    /\ patches = <<>>
    /\ im = <<>>
    /\ bits = 8
    /\ parsed = NoInt

\* `?` on the line's result: the bytes are pushed and counted, or assemble
\* returns the Err. The count is a u8: a sum above 255 wraps where overflow
\* is not checked and panics where it is.
Assembled(r) ==
    IF r.ok
        THEN /\ buffer' = buffer \o r.v
             /\ UNCHANGED logs
             /\ IF parsed.val + Len(r.v) <= 255
                    THEN /\ parsed' = [parsed EXCEPT !.val = @ + Len(r.v)]
                         /\ gi' = gi + 1
                         /\ UNCHANGED pc
                ELSE \/ /\ parsed' = [parsed EXCEPT !.val = (@ + Len(r.v)) % 256]
                        /\ gi' = gi + 1
                        /\ UNCHANGED pc
                     \/ /\ pc' = "asm_panic"
                        /\ UNCHANGED <<parsed, gi>>
    ELSE /\ pc' = "asm_err"
         /\ logs' = <<Log("Error", [line |-> gi - 1, origin |-> <<>>], r.err)>>
         /\ parsed' = [parsed EXCEPT !.ok = FALSE]
         /\ UNCHANGED <<buffer, gi>>

\* One iteration of the loop of assemble; a blank line is filtered out.
AsmLine ==
    /\ pc = "asm"
    /\ gi <= Len(source)
    /\ IF source[gi] = BlankLine
           THEN gi' = gi + 1 /\ UNCHANGED <<buffer, parsed, pc, logs>>
       ELSE Assembled(assemble_line(source[gi], gi - 1))
    /\ UNCHANGED <<source, lines, symbols, patches, im, bits>>

\* Ok(written)
AsmEnd ==
    /\ pc = "asm"
    /\ gi > Len(source)
    /\ pc' = "asm_done"
    /\ UNCHANGED <<source, lines, logs, gi, buffer, symbols, patches, im, bits, parsed>>

NextAsm ==
    \/ AsmLine
    \/ AsmEnd

SpecAsm == InitAsm /\ [][NextAsm]_vars

\* ------------------------------------------- every mnemonic, every shape
\* One-line programs: each mnemonic followed by operand tokens.

MaxTokens == 4

t15 == <<"1", "5">>

ShapeNames == {lower_case[k] : k \in 1..Len(lower_case)}

\* An in-range and an out-of-range register, a comma, a literal, a name.
ShapeTokens == {TRegister(t3), TRegister(t16), TComma, TImmediate(t1), TIdent("a")}

ShapeRegs == {TRegister(d) : d \in {t0, t15, t16, t255, t256, t300}}

ShapeInts == {TImmediate(d) : d \in {t1, t255, t256, t65535, t65536, t1FF}}

\* The operand shapes of the seven modes, with registers and literals at and
\* beyond their limits.
FullShapes ==
    {<<r>> : r \in ShapeRegs} \cup {<<i>> : i \in ShapeInts}
    \cup {<<r, TComma, x>> : r \in ShapeRegs, x \in ShapeRegs \cup ShapeInts}
    \cup {<<r, TComma, q, TComma, i>> : r \in ShapeRegs, q \in ShapeRegs, i \in ShapeInts}

\* Two registers, a comma, and up to two more tokens.
LongShapes ==
    LET rr == {<<r, TComma, q, TComma>> : r, q \in {TRegister(t3), TRegister(t16)}}
    IN  {p \o <<x>> : p \in rr, x \in ShapeTokens}
        \cup {p \o <<x, y>> : p \in rr, x \in ShapeTokens, y \in ShapeTokens}

ShortShapes == UNION {[1..n -> ShapeTokens] : n \in 0..MaxTokens}

ShapeLines ==
    {<<TIdent(m)>> \o o : m \in ShapeNames, o \in ShortShapes \cup FullShapes \cup LongShapes}

ParseShape ==
    /\ pc = "parse"
    /\ source = <<>>
    /\ \E toks \in ShapeLines :
          Parsed(toks, parse_source_line(toks, 0, NoOptions, Files))
    /\ UNCHANGED <<gi, buffer, symbols, patches, im, bits, parsed>>

NextShape == ParseShape

SpecShape == Init /\ [][NextShape]_vars

\* ------------------------------------------------- the callers: main, lib
\* main (main.rs) and assemble_x69 (lib.rs) parse the source, generate the
\* binary and write it to the output file.

MainSource ==
    { <<TLabel("a")>>,
      <<TIdent("jmp"), TIdent("a")>>,
      <<TIdent("jmp"), TIdent("zz")>>,
      <<TIdent("nop")>>,
      <<TIdent("bogus")>>,
      <<TIdent("set"), TRegister(t1), TComma, TImmediate(t1FF)>>,
      <<TDirective("include"), TString(tf)>> }

\* main with an error among the logs of the parse: the logs are printed and
\* main returns before the output file is created.
MainAbort ==
    /\ pc = "parse"
    /\ \E k \in 1..Len(logs) : is_error(logs[k])
    /\ pc' = "main_aborted"
    /\ UNCHANGED <<source, lines, logs, gi, buffer, symbols, patches, im, bits, parsed>>

\* main without one: the output file is created, the lines are assembled and
\* the assembly is written.
MainWrite ==
    /\ pc = "parse"
    /\ \A k \in 1..Len(logs) : ~is_error(logs[k])
    /\ Generated(assemble_lines(lines, logs))
    /\ pc' = "main_written"
    /\ UNCHANGED <<source, lines, gi, im, bits, parsed>>

\* assemble_x69: the lines are assembled, the logs printed and the binary
\* written.
LibWrite ==
    /\ pc = "parse"
    /\ Generated(assemble_lines(lines, logs))
    /\ pc' = "lib_written"
    /\ UNCHANGED <<source, lines, gi, im, bits, parsed>>

NextMain ==
    \/ ParseLine(MainSource, MaxLines)
    \/ MainAbort
    \/ MainWrite
    \/ LibWrite

SpecMain == Init /\ [][NextMain]_vars

\* ------------------------------------------------------------- .include
\* parse_raw over sources that include files.

tg == <<"g">>
tu == <<"u">>
tx == <<"x">>

\* f holds a labelled line, a line that fails, an include of g and a last
\* line; g a line with a warning; u cannot be read; x does not exist.
IncFiles ==
    (tf :> [readable |-> TRUE,
            contents |-> << <<TLabel("x"), TIdent("nop")>>,
                            <<TIdent("bogus")>>,
                            <<TDirective("include"), TString(tg)>>,
                            <<TIdent("clr"), TRegister(t1)>> >>])
    @@ (tg :> [readable |-> TRUE,
               contents |-> << <<TIdent("set"), TRegister(t1), TComma, TImmediate(t1FF)>> >>])
    @@ (tu :> [readable |-> FALSE, contents |-> <<>>])

IncSource ==
    { <<TLabel("a")>>,
      <<TIdent("nop")>>,
      <<TIdent("bogus")>>,
      <<TDirective("include"), TString(tf)>>,
      <<TDirective("include"), TString(tg)>>,
      <<TDirective("include"), TString(tu)>>,
      <<TDirective("include"), TString(tx)>>,
      <<TLabel("l"), TDirective("include"), TString(tf)>>,
      <<TDirective("include"), TString(tg), TIdent("nop")>>,
      <<TDirective("include")>> }

ParseInc ==
    /\ pc = "parse"
    /\ Len(source) < MaxLines
    /\ \E toks \in IncSource :
          Parsed(toks, parse_source_line(toks, Len(source), NoOptions, IncFiles))
    /\ UNCHANGED <<gi, buffer, symbols, patches, im, bits, parsed>>

NextInc == ParseInc

SpecInc == Init /\ [][NextInc]_vars

\* ------------------------------------------------------------- lexer.rs
\* Lexer::next over the text of one line, a sequence of characters.

MaxChars == 3

is_ascii_digit(c) == c \in {"0", "1", "2", "3", "4", "5", "6", "7", "8", "9"}

is_ascii_hexdigit(c) ==
    is_ascii_digit(c) \/ c \in {"a", "b", "c", "d", "e", "f", "A", "B", "C", "D", "E", "F"}

\* label_chars: c.is_ascii_alphabetic() || c == '_'
label_chars(c) ==
    c \in { "a", "b", "c", "d", "e", "f", "g", "h", "i", "j", "k", "l", "m", "n", "o", "p",
            "q", "r", "s", "t", "u", "v", "w", "x", "y", "z", "A", "B", "C", "D", "E", "F",
            "G", "H", "I", "J", "K", "L", "M", "N", "O", "P", "Q", "R", "S", "T", "U", "V",
            "W", "X", "Y", "Z", "_" }

\* take_while: the text split before its first character that fails the
\* predicate (here: that is not one of the accepted characters), or at its
\* end.
take_while(text, accepted) ==
    LET i == CHOOSE i \in 1..(Len(text) + 1) :
                 /\ \A j \in 1..(i - 1) : text[j] \in accepted
                 /\ i = Len(text) + 1 \/ text[i] \notin accepted
    IN  <<SubSeq(text, 1, i - 1), SubSeq(text, i, Len(text))>>

\* str::trim: without the white space at both ends.
trim(text) ==
    LET ws(c) == c \in {" ", "\t"}
        inner == {k \in 1..Len(text) : ~ws(text[k])}
    IN  IF inner = {} THEN <<>>
        ELSE SubSeq(text, CHOOSE a \in inner : \A k \in inner : a <= k,
                          CHOOSE b \in inner : \A k \in inner : b >= k)

\* Lexer::next on the text that remains: Some(token) and what remains after
\* it, None, or a panic (a slice past the end of the text).
Lexer_next(remain0) ==
    LET remain == trim(remain0)
        some(t, d, r) == [k |-> "Some", tok |-> Tk(t, "", d), remain |-> r]
        none == [k |-> "None", tok |-> NoToken, remain |-> <<>>]
        panic == [k |-> "Panic", tok |-> NoToken, remain |-> remain]
        after(n) == SubSeq(remain, n + 1, Len(remain))
        upto(n) == SubSeq(remain, 1, n)
        chars == {remain[k] : k \in 1..Len(remain)}
        digit == {c \in chars : is_ascii_digit(c)}
        hexdigit == {c \in chars : is_ascii_hexdigit(c)}
        label == {c \in chars : label_chars(c)}
        alphabetic == label \ {"_"}
        bit == {"0", "1"}
        word == take_while(remain, label)
        name == IF word[2] # <<>> /\ Head(word[2]) = ":"
                    THEN some("Label", word[1], Tail(word[2]))
                ELSE some("Ident", word[1], word[2])
    IN  IF remain = <<>> THEN none
        ELSE CASE remain[1] \in {"r", "R"} ->
                    IF take_while(after(1), digit)[1] # <<>>
                        THEN some("Register", take_while(after(1), digit)[1],
                                  take_while(after(1), digit)[2])
                    ELSE name
               [] remain[1] = "." ->
                    some("Directive", take_while(after(1), alphabetic)[1],
                         take_while(after(1), alphabetic)[2])
               [] remain[1] = "," -> some("Comma", <<>>, after(1))
               [] remain[1] = "/" ->
                    IF Len(remain) >= 2 /\ remain[2] = "/" THEN none
                    ELSE IF Len(remain) >= 3 THEN some("Unknown", upto(2), after(2))
                    ELSE some("Unknown", remain, <<>>)
               [] label_chars(remain[1]) /\ remain[1] \notin {"r", "R"} -> name
               [] is_ascii_digit(remain[1]) ->
                    IF remain[1] = "0"
                        THEN IF Len(remain) >= 2 /\ remain[2] = "x"
                                 THEN some("Immediate",
                                           upto(Len(take_while(after(2), hexdigit)[1]) + 2),
                                           take_while(after(2), hexdigit)[2])
                             ELSE IF Len(remain) >= 2 /\ remain[2] = "b"
                                 THEN some("Immediate",
                                           upto(Len(take_while(after(2), bit)[1]) + 2),
                                           take_while(after(2), bit)[2])
                             ELSE IF Len(remain) >= 2 /\ is_ascii_digit(remain[2])
                                 THEN some("Immediate",
                                           upto(Len(take_while(after(2), digit)[1]) + 2),
                                           take_while(after(2), digit)[2])
                             ELSE IF Len(remain) < 2 THEN panic
                             ELSE some("Unknown", upto(2), after(2))
                    ELSE some("Immediate", take_while(remain, digit)[1],
                              take_while(remain, digit)[2])
               [] OTHER ->
                    IF Len(remain) >= 2 THEN some("Unknown", upto(1), after(1))
                    ELSE some("Unknown", remain, <<>>)

LexChars == {"0", "1", "9", "x", "b", "r", ",", " ", "/", ":"}

\* The lines: every text of at most MaxChars characters.
LexTexts == UNION {[1..n -> LexChars] : n \in 0..MaxChars}

\* source holds the line, im what remains of it, lines the tokens so far.
InitLex ==
    /\ source \in {<<text>> : text \in LexTexts}
    /\ im = source[1]
    /\ lines = <<>>
    /\ logs = <<>>
    /\ pc = "lex"
    /\ gi = 1
    /\ buffer = <<>>
    /\ symbols = {}
    /\ patches = <<>>
    /\ bits = 8
    /\ parsed = NoInt

\* One call of lexer.next() by the loop that drains the lexer.
LexNext ==
    /\ pc = "lex"
    /\ CASE Lexer_next(im).k = "Some" ->
                /\ lines' = Append(lines, Lexer_next(im).tok)
                /\ im' = Lexer_next(im).remain
                /\ pc' = "lex"
         [] Lexer_next(im).k = "None" ->
                /\ pc' = "lex_done"
                /\ UNCHANGED <<lines, im>>
         [] OTHER ->
                /\ pc' = "lex_panic"
                /\ im' = Lexer_next(im).remain
                /\ UNCHANGED lines
    /\ UNCHANGED <<source, logs, gi, buffer, symbols, patches, bits, parsed>>

NextLex == LexNext

SpecLex == InitLex /\ [][NextLex]_vars

\* ------------------------------------------- every long-immediate mnemonic
\* Programs of a first line, then a line of a two-registers-or-long-immediate
\* mnemonic with an immediate or a label, then a last line.

LongNames ==
    { "jmp", "slr", "ssp", "sadr", "jmpz", "jmpnz", "jmpc", "jmpnc", "rjmpz",
      "rjmpnz", "rjmpc", "rjmpnc", "callz", "callnz", "callc", "callnc", "rcallz",
      "rcallnz", "rcallc", "rcallnc" }

LongLines ==
    {<<TIdent(m), TImmediate(v)>> : m \in LongNames, v \in {t0, t513, t65535, tDEAD}}
    \cup {<<TIdent(m), TIdent(l)>> : m \in LongNames, l \in {"a", "zz"}}

\* The lines the k-th source line is one of.
LongStage(k) ==
    CASE k = 1 -> {<<TLabel("a")>>, <<TDirective("line"), TImmediate(t258)>>, <<TIdent("nop")>>}
      [] k = 2 -> LongLines
      [] k = 3 -> {<<TLabel("a")>>, <<TIdent("nop")>>}
      [] OTHER -> {}

ParseLong ==
    /\ pc = "parse"
    /\ \E toks \in LongStage(Len(source) + 1) :
          Parsed(toks, parse_source_line(toks, Len(source), NoOptions, Files))
    /\ UNCHANGED <<gi, buffer, symbols, patches, im, bits, parsed>>

NextLong ==
    \/ ParseLong
    \/ EndParse
    \/ GenLine
    \/ Resolve

SpecLong == Init /\ [][NextLong]_vars

\* ------------------------------------------------------------ properties

\* The logs with message msg.
Logged(msg) == {k \in 1..Len(logs) : logs[k].msg = msg}

\* The byte of the buffer at offset p (0-based).
ByteAt(p) == buffer[p + 1]

\* C1: after the forward pass and the resolution, every pending patch
\* (label, offset p) whose label is in the symbol table with offset v has
\* v mod 256 at p and v div 256 at p + 1, whether the label was declared
\* before or after the reference.
C1_PatchesLittleEndian ==
    pc = "done" =>
        \A k \in 1..Len(patches) :
            declared(symbols, patches[k].label) =>
                LET v == lookup(symbols, patches[k].label)
                    q == patches[k].offset
                IN  /\ q + 2 <= Len(buffer)
                    /\ ByteAt(q) = v % 256
                    /\ ByteAt(q + 1) = v \div 256

\* A program with a forward and a backward reference, both resolved to
\* offsets above 255.
C1_Witness ==
    /\ pc = "done"
    /\ \E f, b \in 1..Len(patches) :
          /\ declared(symbols, patches[f].label)
          /\ declared(symbols, patches[b].label)
          /\ lookup(symbols, patches[f].label) > patches[f].offset
          /\ lookup(symbols, patches[b].label) < patches[b].offset
          /\ lookup(symbols, patches[f].label) > 255
          /\ lookup(symbols, patches[b].label) > 255
          /\ lookup(symbols, patches[b].label) % 256 # 0

\* What the source says, read without the parser: the tokens of a line after
\* its label declaration, the labels it declares, the value of a literal.
Body(toks) == IF toks # <<>> /\ toks[1].t = "Label" THEN Tail(toks) ELSE toks

\* The labels declared by the first k source lines.
DeclaredUpTo(k) ==
    {source[j][1].s : j \in {j \in 1..k : source[j] # <<>> /\ source[j][1].t = "Label"}}

hex_chars ==
    <<"0", "1", "2", "3", "4", "5", "6", "7", "8", "9", "a", "b", "c", "d", "e", "f">>

\* The value of one digit character.
DigitValue(c) ==
    CASE c = "A" -> 10 [] c = "B" -> 11 [] c = "C" -> 12
      [] c = "D" -> 13 [] c = "E" -> 14 [] c = "F" -> 15
      [] OTHER -> (CHOOSE k \in 1..16 : hex_chars[k] = c) - 1

RECURSIVE DigitsValue(_, _)
DigitsValue(digits, radix) ==
    IF digits = <<>> THEN 0
    ELSE DigitsValue(SubSeq(digits, 1, Len(digits) - 1), radix) * radix
         + DigitValue(digits[Len(digits)])

IsHex(text) == Len(text) >= 2 /\ text[1] = "0" /\ text[2] = "x"
IsBin(text) == Len(text) >= 2 /\ text[1] = "0" /\ text[2] = "b"

\* The number a literal denotes, whatever its length.
LitValue(text) ==
    IF IsHex(text) THEN DigitsValue(SubSeq(text, 3, Len(text)), 16)
    ELSE IF IsBin(text) THEN DigitsValue(SubSeq(text, 3, Len(text)), 2)
    ELSE DigitsValue(text, 10)

\* The decimal text of a number.
RECURSIVE ToDecimal(_)
ToDecimal(v) ==
    IF v < 10 THEN <<hex_chars[v + 1]>>
    ELSE Append(ToDecimal(v \div 10), hex_chars[(v % 10) + 1])

\* A jump to a label: a mnemonic of the two-registers-or-long-immediate
\* mode followed by one bare identifier.
IsLabelJump(toks) ==
    LET b == Body(toks)
    IN  /\ Len(b) = 2
        /\ b[1].t = "Ident"
        /\ b[2].t = "Ident"
        /\ from_str(to_uppercase(b[1].s)) # ""
        /\ assemble_info(from_str(to_uppercase(b[1].s))).mode = "TwoRegistersOrLongImmediate"

\* The program with every jump to a label declared on an earlier line, or
\* on the line of the jump, replaced by a jump to the decimal literal of the
\* offset the label stands for.
WithLiterals ==
    [k \in 1..Len(source) |->
        IF IsLabelJump(source[k]) /\ source[k][Len(source[k])].s \in DeclaredUpTo(k)
            THEN [source[k] EXCEPT ![Len(source[k])] =
                      TImmediate(ToDecimal(lookup(symbols, source[k][Len(source[k])].s)))]
        ELSE source[k]]

DeclIdx(name) ==
    {j \in 1..Len(lines) : lines[j].data.k = "Label" /\ lines[j].data.name = name}

Undeclared == {k \in 1..Len(patches) : DeclIdx(patches[k].label) = {}}

C3_State ==
    /\ pc # "done" => Logged("unresolved symbol") = {}
    /\ pc = "done" =>
          /\ \A n \in 0..MaxLines :
                Cardinality({j \in Logged("unresolved symbol") :
                                logs[j].line = n /\ logs[j].kind = "Error"})
                    = Cardinality({k \in Undeclared : patches[k].line = n})
          /\ Cardinality(Logged("unresolved symbol")) = Cardinality(Undeclared)
          /\ \A k \in Undeclared :
                /\ ByteAt(patches[k].offset) = Placeholder
                /\ ByteAt(patches[k].offset + 1) = Placeholder

C3_Step == pc = "gen" /\ pc' = "done" => Len(buffer') = Len(buffer) /\ patches' = patches

\* C3: a reference to a label that no line declares is reported as exactly
\* one unresolved-symbol error, on the line of the reference, and only once
\* the layout pass is over; its placeholder bytes stay in the buffer and the
\* length of the buffer does not change.
C3_UnresolvedReported == []C3_State /\ [][C3_Step]_vars

\* A program with a reference that is never declared next to one that is.
C3_Witness ==
    /\ pc = "done"
    /\ Undeclared # {}
    /\ \E k \in 1..Len(patches) : k \notin Undeclared

\* The offset at which parsed line j starts: the length of the bytes of the
\* lines before it.
OffsetAt(j) == Len(gen_from(GenInit(<<>>), SubSeq(lines, 1, j - 1), 1).buffer)

Last(D) == CHOOSE m \in D : \A x \in D : x <= m

C4_State ==
    pc = "done" =>
        /\ gi = Len(lines) + 1
        /\ \A k \in 1..Len(patches) :
              DeclIdx(patches[k].label) # {} =>
                  LET v == OffsetAt(Last(DeclIdx(patches[k].label)))
                  IN  /\ ByteAt(patches[k].offset) = v % 256
                      /\ ByteAt(patches[k].offset + 1) = v \div 256

C4_Step ==
    (/\ pc = "gen"
     /\ gi <= Len(lines)
     /\ lines[gi].data.k = "Label"
     /\ \E j \in 1..(gi - 1) : j \in DeclIdx(lines[gi].data.name))
    => /\ logs' = Append(logs, Log("Error", lines[gi], "declared multiple times"))
       /\ lookup(symbols', lines[gi].data.name) = Len(buffer)
       /\ buffer' = buffer
       /\ pc' = "gen"
       /\ gi' = gi + 1

\* C4: the second declaration of a label name is exactly one "declared
\* multiple times" error; the name then stands for the later offset, which
\* is what every reference to it resolves to, and the generation goes on to
\* the end of the program.
C4_Redeclaration == []C4_State /\ [][C4_Step]_vars

\* A label declared at two different offsets, and referenced.
C4_Witness ==
    /\ pc = "done"
    /\ \E k \in 1..Len(patches) :
          \E i, j \in DeclIdx(patches[k].label) : OffsetAt(i) # OffsetAt(j)

\* The source line a parsed line comes from (the programs include no file).
SourceOf(j) == source[lines[j].line + 1]

\* The logs a step adds.
NewLogs == SubSeq(logs', Len(logs) + 1, Len(logs'))

C5_Step ==
    (pc = "gen" /\ gi <= Len(lines) /\ lines[gi].data.k = "Line") =>
        LET N == LitValue(Body(SourceOf(gi))[2].d) % 65536
            L == Len(buffer)
        IN  /\ SubSeq(logs', 1, Len(logs)) = logs
            /\ pc' = "gen"
            /\ gi' = gi + 1
            /\ IF N < L
                   THEN /\ buffer' = buffer
                        /\ \E k \in 1..Len(NewLogs) : is_error(NewLogs[k])
               ELSE /\ Len(buffer') = N
                    /\ SubSeq(buffer', 1, L) = buffer
                    /\ \A k \in (L + 1)..N : buffer'[k] = 0
                    /\ \A k \in 1..Len(NewLogs) : ~is_error(NewLogs[k])
                    /\ (\E k \in 1..Len(NewLogs) : NewLogs[k].kind = "Warning")
                           <=> (N - L) % 2 = 1

\* C5: `.line N` reached with a buffer of length L: when N < L the buffer is
\* unchanged and an error is reported; when N >= L the buffer is extended
\* with zero bytes to length exactly N, without an error, and with a warning
\* exactly when N - L is odd. N is the value of the 16-bit literal of the
\* source line.
C5_LineDirective == [][C5_Step]_vars

\* `.line 3`, `.line 258`, `.line 3` generated: two odd paddings and one
\* step backward.
C5_Witness ==
    /\ pc = "done"
    /\ Len(buffer) = 258
    /\ Cardinality(Logged("odd padding breaks alignment")) = 2
    /\ Cardinality(Logged("cannot move backward")) = 1

\* The items of a `.db` line made of literals that fit a byte, strings and
\* labels.
Items(toks) == Tail(Body(toks))

FitsByte(text) == IsHex(text) \/ IsBin(text) \/ LitValue(text) <= 255

WellFormedDb(toks) ==
    /\ Len(Body(toks)) >= 2
    /\ Body(toks)[1] = TDirective("db")
    /\ \A k \in 1..Len(Items(toks)) :
          \/ Items(toks)[k].t \in {"Ident", "String"}
          \/ Items(toks)[k].t = "Immediate" /\ FitsByte(Items(toks)[k].d)

\* The bytes of one item in the final buffer.
ItemBytes(item) ==
    CASE item.t = "Immediate" -> <<LitValue(item.d) % 256>>
      [] item.t = "String" -> [k \in 1..Len(item.d) |-> as_byte(item.d[k])]
      [] item.t = "Ident" ->
            IF DeclIdx(item.s) = {} THEN <<Placeholder, Placeholder>>
            ELSE <<OffsetAt(Last(DeclIdx(item.s))) % 256,
                   OffsetAt(Last(DeclIdx(item.s))) \div 256>>

RECURSIVE DbBytes(_, _)
DbBytes(items, k) ==
    IF k > Len(items) THEN <<>> ELSE ItemBytes(items[k]) \o DbBytes(items, k + 1)

\* C6: a `.db` line emits its items in source order: a numeric literal as
\* one byte, a string as its bytes, a bare identifier as two bytes with a
\* pending patch at that exact offset, which hold the label's offset, low
\* byte first, once it is resolved; `.db 0 1 array "hi"` with array at v
\* is 00 01 lo(v) hi(v) 68 69.
C6_DbInOrder ==
    pc = "done" =>
        \A s \in 1..Len(source) :
            WellFormedDb(source[s]) =>
                \E j \in 1..Len(lines) :
                    /\ lines[j].line = s - 1
                    /\ lines[j].data.k = "DB"
                    /\ \A i \in 1..Len(lines) : lines[i].line = s - 1 /\ i # j =>
                          lines[i].data.k = "Label"
                    /\ LET E == DbBytes(Items(source[s]), 1)
                           at == OffsetAt(j)
                       IN  /\ OffsetAt(j + 1) = at + Len(E)
                           /\ SubSeq(buffer, at + 1, at + Len(E)) = E
                           /\ \A k \in 1..Len(Items(source[s])) :
                                 Items(source[s])[k].t = "Ident" =>
                                     \E q \in 1..Len(patches) :
                                         /\ patches[q].label = Items(source[s])[k].s
                                         /\ patches[q].offset =
                                                at + Len(DbBytes(SubSeq(Items(source[s]), 1, k - 1), 1))

\* `.db 0 1 array "hi"` with array declared on a later line, at an offset
\* above 255.
C6_Witness ==
    /\ pc = "done"
    /\ \E s \in 1..Len(source) :
          /\ source[s] = <<TDirective("db"), TImmediate(t0), TImmediate(t1),
                           TIdent("array"), TString(thi)>>
          /\ DeclIdx("array") # {}
          /\ \A d \in DeclIdx("array") : lines[d].line > s - 1
          /\ lookup(symbols, "array") > 255
          /\ \E at \in 0..Len(buffer) :
                SubSeq(buffer, at + 1, at + 6) =
                    <<0, 1, lookup(symbols, "array") % 256, lookup(symbols, "array") \div 256,
                      104, 105>>

\* The parsed lines and the logs of source line s (1-based); an IOError
\* carries no line.
LinesOf(s) == {j \in 1..Len(lines) : lines[j].line = s - 1}
LogsOf(s) == {k \in 1..Len(logs) : logs[k].kind # "IOError" /\ logs[k].line = s - 1}
ErrorsOf(s) == {k \in LogsOf(s) : is_error(logs[k])}
WarningsOf(s) == {k \in LogsOf(s) : logs[k].kind = "Warning"}

\* The source lines that raised an error.
Failing == {s \in 1..Len(source) : ErrorsOf(s) # {}}

RECURSIVE SourceWithout(_, _)
SourceWithout(F, k) ==
    IF k > Len(source) THEN <<>>
    ELSE (IF k \in F THEN <<>> ELSE <<source[k]>>) \o SourceWithout(F, k + 1)

RECURSIVE DataWithout(_, _)
DataWithout(F, j) ==
    IF j > Len(lines) THEN <<>>
    ELSE (IF lines[j].line + 1 \in F THEN <<>> ELSE <<lines[j].data>>) \o DataWithout(F, j + 1)

DataOf(ls) == [j \in 1..Len(ls) |-> ls[j].data]

\* C7: a source line that raises an error is abandoned: it has no directive
\* and no instruction among the parsed lines, and the parsed lines of the
\* other source lines are those of the source without the failing lines.
C7_LineAbandoned ==
    pc = "parse" =>
        /\ \A s \in Failing : \A j \in LinesOf(s) : lines[j].data.k = "Label"
        /\ DataWithout(Failing, 1)
               = DataOf(parse_raw(SourceWithout(Failing, 1), NoOptions, Files).lines)

IsInclude(toks) == Body(toks) # <<>> /\ Body(toks)[1] = TDirective("include")

\* The original statement of C8: one parsed line, or none and a diagnostic.
C8_ExactlyOne ==
    \A s \in 1..Len(source) :
        source[s] # <<>> /\ ~IsInclude(source[s]) =>
            \/ Cardinality(LinesOf(s)) = 1
            \/ LinesOf(s) = {} /\ LogsOf(s) # {}

\* C8: every source line with at least one token that is not an `.include`
\* directive gives exactly one parsed line, or the declaration of its label
\* followed by exactly one directive or instruction, or no parsed line and
\* at least one diagnostic.
C8_OneOrLabelled ==
    \A s \in 1..Len(source) :
        source[s] # <<>> /\ ~IsInclude(source[s]) =>
            \/ Cardinality(LinesOf(s)) = 1
            \/ /\ Cardinality(LinesOf(s)) = 2
               /\ source[s][1].t = "Label"
               /\ \E j \in LinesOf(s) :
                     /\ j + 1 \in LinesOf(s)
                     /\ lines[j].data = LabelData(source[s][1].s)
                     /\ lines[j + 1].data.k # "Label"
            \/ LinesOf(s) = {} /\ LogsOf(s) # {}

\* `b: jmp a` parsed: a label declaration and an instruction; and a line on
\* its own label, and a line with nothing but a diagnostic.
C8_Witness ==
    /\ pc = "parse"
    /\ \E s \in 1..Len(source) :
          /\ Len(source[s]) = 3
          /\ source[s][1].t = "Label"
          /\ Cardinality(LinesOf(s)) = 2
    /\ \E s \in 1..Len(source) : LinesOf(s) = {} /\ LogsOf(s) # {}

Pow2(W) == IF W = 8 THEN 256 ELSE 65536

\* C9: a hexadecimal or binary literal of n >= 1 digits parsed into a W-bit
\* target gives its value modulo 2^W, no error, and the truncation warning
\* exactly when n > W/4 (hexadecimal) or n > W (binary).
C9_HexBinTruncation ==
    pc = "int_done" /\ (IsHex(im) \/ IsBin(im)) =>
        /\ parsed.ok
        /\ parsed.val = LitValue(im) % Pow2(bits)
        /\ \A k \in 1..Len(logs) : ~is_error(logs[k])
        /\ (\E k \in 1..Len(logs) : logs[k].kind = "Warning")
               <=> Len(im) - 2 > (IF IsHex(im) THEN bits \div 4 ELSE bits)

\* A hexadecimal literal of five digits, the first not zero, in 16 bits, and
\* parsed with the warning.
C9_Witness ==
    /\ pc = "int_done"
    /\ IsHex(im)
    /\ bits = 16
    /\ Len(im) = 7
    /\ im[3] # "0"
    /\ parsed.val # 0
    /\ \E k \in 1..Len(logs) : logs[k].kind = "Warning"

\* The width of the target of the token at index k of a line, where the
\* grammar takes an immediate; 0 elsewhere.
TargetBits(toks, k) ==
    LET b == Body(toks)
        name == IF b # <<>> /\ b[1].t = "Ident" THEN from_str(to_uppercase(b[1].s)) ELSE ""
        mode == IF name = "" THEN "" ELSE assemble_info(name).mode
        allItems == \A i \in 2..Len(b) : b[i].t \in {"Immediate", "Ident", "String"}
    IN  IF b = <<>> \/ k < 2 \/ k > Len(b) \/ b[k].t # "Immediate" THEN 0
        ELSE IF b[1] = TDirective("line") /\ Len(b) = 2 THEN 16
        ELSE IF b[1] = TDirective("db") /\ allItems THEN 8
        ELSE IF mode = "TwoRegistersOrLongImmediate" /\ Len(b) = 2 THEN 16
        ELSE IF /\ mode \in {"OneRegisterAndImmediate", "TwoRegistersOrImmediate"}
                /\ Len(b) = 4 /\ k = 4 /\ b[2].t = "Register" /\ b[3] = TComma
            THEN 8
        ELSE 0

IsDecimal(text) == ~IsHex(text) /\ ~IsBin(text)

\* The decimal literals of source line s that exceed their target.
Oversize(s) ==
    {k \in 1..Len(Body(source[s])) :
        /\ TargetBits(source[s], k) # 0
        /\ IsDecimal(Body(source[s])[k].d)
        /\ LitValue(Body(source[s])[k].d) >= Pow2(TargetBits(source[s], k))}

\* C10: a decimal literal above the maximum of its target raises one error,
\* no warning, and its line has no parsed instruction or directive.
C10_DecimalOverflow ==
    pc = "parse" =>
        \A s \in 1..Len(source) :
            Cardinality(Oversize(s)) = 1 =>
                /\ Cardinality(ErrorsOf(s)) = 1
                /\ WarningsOf(s) = {}
                /\ \A j \in LinesOf(s) : lines[j].data.k = "Label"

\* The mode of a mnemonic written in lower case, by instruction.rs; "" when
\* it is no mnemonic.
ModeOf(m) ==
    IF from_str(to_uppercase(m)) = "" THEN ""
    ELSE assemble_info(from_str(to_uppercase(m))).mode

OpOf(m) == assemble_info(from_str(to_uppercase(m))).op

\* A program of one line that assemble has finished with.
OneLine == Len(source) = 1 /\ pc \in {"asm_done", "asm_err"}

\* The one line has the shape `m rx, ry, i`.
IsRRI(l) ==
    /\ Len(l) = 6
    /\ l[1].t = "Ident" /\ l[2].t = "Register" /\ l[3].t = "Comma"
    /\ l[4].t = "Register" /\ l[5].t = "Comma" /\ l[6].t = "Immediate"

\* C11: `m rx, ry, i` with m a two-registers-or-immediate mnemonic of base
\* opcode op, x and y in 0..15, assembles to exactly the three bytes
\* op | 0x80 (op + 128), (y & 0x0F) | (x << 4) (y + 16 x), i; `add r15, r0,
\* 123` to 0b10100101, 0xF0, 123.
C11_ThreeBytes ==
    /\ (/\ OneLine
        /\ IsRRI(source[1])
        /\ ModeOf(source[1][1].s) = "TwoRegistersOrImmediate"
        /\ source[1][2].n <= 15
        /\ source[1][4].n <= 15)
       => /\ pc = "asm_done"
          /\ OpOf(source[1][1].s) < 128
          /\ buffer = <<OpOf(source[1][1].s) + 128,
                        source[1][4].n + 16 * source[1][2].n,
                        source[1][6].n>>
    /\ OneLine
       /\ source[1] = <<TIdent("add"), ORegister(15), TComma, ORegister(0), TComma,
                        OImmediate(123)>>
       => buffer = <<165, 240, 123>>

\* `add r15, r0, 123` assembled.
C11_Witness ==
    /\ pc = "asm_done"
    /\ source = << <<TIdent("add"), ORegister(15), TComma, ORegister(0), TComma,
                     OImmediate(123)>> >>
    /\ buffer = <<165, 240, 123>>

\* The mode of a mnemonic written in lower case, by codegen.rs.
CodegenModeOf(m) ==
    IF codegen_from_str(to_ascii_uppercase(m)) = "" THEN ""
    ELSE codegen_assemble_info(codegen_from_str(to_ascii_uppercase(m))).mode

\* The line with its numbers as decimal text, as parse_raw takes them.
AsText(l) ==
    [k \in 1..Len(l) |->
        CASE l[k].t = "Register" -> TRegister(ToDecimal(l[k].n))
          [] l[k].t = "Immediate" -> TImmediate(ToDecimal(l[k].n))
          [] OTHER -> l[k]]

\* The payload parse_raw gives the line, when it gives it one instruction.
PayloadOf(l) ==
    LET r == parse_source_line(AsText(l), 0, NoOptions, Files)
    IN  IF Len(r.lines) = 1 /\ r.lines[1].data.k = "Instruction" THEN r.lines[1].data.p
        ELSE PNone

IsR(l) == Len(l) = 2 /\ l[1].t = "Ident" /\ l[2].t = "Register"

IsRI(l) ==
    /\ Len(l) = 4
    /\ l[1].t = "Ident" /\ l[2].t = "Register" /\ l[3].t = "Comma" /\ l[4].t = "Immediate"

C13_NoOperands ==
    (/\ OneLine
     /\ Len(source[1]) = 1
     /\ source[1][1].t = "Ident"
     /\ ModeOf(source[1][1].s) = "NoParams")
    => /\ pc = "asm_done"
       /\ buffer = <<OpOf(source[1][1].s), 0>>
       /\ source[1][1].s = "nop" => buffer = <<41, 0>>

CodegenMapOf(m) == codegen_assemble_info(codegen_from_str(to_ascii_uppercase(m))).map

IsRR(l) ==
    /\ Len(l) = 4
    /\ l[1].t = "Ident" /\ l[2].t = "Register" /\ l[3].t = "Comma" /\ l[4].t = "Register"

\* The one line is `m rx` or `m rx, ry` with registers in 0..15 and m a
\* mnemonic that assemble accepts with these operands.
NoImmediate(l) ==
    \/ /\ IsR(l) /\ l[2].n <= 15
       /\ CodegenModeOf(l[1].s) \in {"OneRegister", "OneOrTwoRegisters"}
    \/ /\ IsRR(l) /\ l[2].n <= 15 /\ l[4].n <= 15
       /\ CodegenModeOf(l[1].s) \in {"OneOrTwoRegisters", "TwoRegistersOrImmediate"}

\* C15: a mnemonic assembled without an immediate, with the registers a and
\* b in 0..15 (b = a when only one is written), has the nibble byte
\* (mappedA & 0x0F) | (mappedB << 4), and the operands are read back from it
\* by the inverse of the register mapping: AB a low, b high; BA a high, b
\* low; AA a low and high.
C15_NibbleByte ==
    (OneLine /\ NoImmediate(source[1])) =>
        LET l == source[1]
            a == l[2].n
            b == IF Len(l) = 4 THEN l[4].n ELSE a
            map == CodegenMapOf(l[1].s)
            mappedA == CASE map = "AB" -> a [] map = "BA" -> b [] OTHER -> a
            mappedB == CASE map = "AB" -> b [] map = "BA" -> a [] OTHER -> a
        IN  /\ pc = "asm_done"
            /\ Len(buffer) = 2
            /\ map \in {"AB", "BA", "AA"}
            /\ buffer[2] = (mappedA % 16) + 16 * mappedB
            /\ map = "AB" => a = buffer[2] % 16 /\ b = buffer[2] \div 16
            /\ map = "BA" => a = buffer[2] \div 16 /\ b = buffer[2] % 16
            /\ map = "AA" => a = buffer[2] % 16 /\ a = buffer[2] \div 16

\* `inc r3, r5` assembled: the map BA puts 5 in the low nibble and 3 in the
\* high one.
C15_Witness ==
    /\ pc = "asm_done"
    /\ source = << <<TIdent("inc"), ORegister(3), TComma, ORegister(5)>> >>
    /\ buffer = <<39, 53>>

\* The body of a source line is a long-immediate mnemonic and one operand.
IsLong(toks) ==
    /\ Len(Body(toks)) = 2
    /\ Body(toks)[1].t = "Ident"
    /\ ModeOf(Body(toks)[1].s) = "TwoRegistersOrLongImmediate"
    /\ Body(toks)[2].t \in {"Immediate", "Ident"}

\* Every such line has one instruction among its parsed lines.
C14_State ==
    \A s \in 1..Len(source) :
        IsLong(source[s]) =>
            Cardinality({j \in LinesOf(s) : lines[j].data.k = "Instruction"}) = 1

C14_Step ==
    (/\ pc = "gen"
     /\ gi <= Len(lines)
     /\ lines[gi].data.k = "Instruction"
     /\ IsLong(SourceOf(gi)))
    => LET b == Body(SourceOf(gi))
           op == OpOf(b[1].s)
           v == LitValue(b[2].d) % 65536
       IN  /\ op < 128
           /\ b[2].t = "Immediate" =>
                 /\ buffer' = buffer \o <<op + 128, v % 256, v \div 256>>
                 /\ patches' = patches
           /\ b[2].t = "Ident" =>
                 /\ buffer' = buffer \o <<op + 128, Placeholder, Placeholder>>
                 /\ Len(patches') = Len(patches) + 1
                 /\ SubSeq(patches', 1, Len(patches)) = patches
                 /\ patches'[Len(patches')].label = b[2].s
                 /\ patches'[Len(patches')].offset = Len(buffer) + 1

\* C14: `m v` of a two-registers-or-long-immediate mnemonic of base opcode
\* op is the three bytes op | 0x80, v mod 256, v div 256; `m label` is
\* op | 0x80 and two placeholder bytes, with a pending patch at the offset
\* of the second byte.
C14_LongImmediate == []C14_State /\ [][C14_Step]_vars

\* After `.line 258`: a call with an immediate above 255 and, in another
\* program, one with a label, both generated.
C14_Witness ==
    /\ pc = "done"
    /\ Len(source) >= 2
    /\ source[1] = <<TDirective("line"), TImmediate(t258)>>
    /\ source[2] = <<TIdent("rcallnc"), TIdent("a")>>
    /\ Len(buffer) >= 261
    /\ Len(patches) = 1
    /\ patches[1].offset = 259

\* The instructions among the parsed lines of source line s.
InstructionsOf(s) == {j \in LinesOf(s) : lines[j].data.k = "Instruction"}

\* The register tokens of a line whose number is above 15.
OutOfBounds(toks) == {k \in 1..Len(toks) : toks[k].t = "Register" /\ LitValue(toks[k].d) > 15}

\* The token at position k of the line is where the mode of the mnemonic
\* reads a register, the tokens before it being in order.
RegisterPlace(toks, k) ==
    /\ toks[1].t = "Ident"
    /\ \/ k = 2 /\ ModeOf(toks[1].s) \notin {"", "NoParams"}
       \/ /\ k = 4
          /\ ModeOf(toks[1].s) \in {"OneOrTwoRegisters", "TwoRegisters", "TwoRegistersOrImmediate",
                                    "TwoRegistersOrLongImmediate"}
          /\ toks[2].t = "Register" /\ LitValue(toks[2].d) <= 15
          /\ toks[3].t = "Comma"

\* C16: every register held in a parsed line is in 0..15; a register's text
\* makes a register exactly when its number is at most 15; a line with a
\* register token above 15 (above 255 too) has no parsed instruction and an
\* error, which is 'register out of bounds' where a register is read.
C16_RegisterRange ==
    /\ \A j \in 1..Len(lines) :
          lines[j].data.k = "Instruction" =>
              lines[j].data.p.a \in 0..15 /\ lines[j].data.p.b \in 0..15
    /\ \A s \in 1..Len(source) :
          /\ \A k \in 1..Len(source[s]) :
                source[s][k].t = "Register" =>
                    /\ (make_register(source[s][k].d) # Err) <=> (LitValue(source[s][k].d) <= 15)
                    /\ LitValue(source[s][k].d) <= 255 =>
                           ((from_u8(LitValue(source[s][k].d)) # Err)
                                <=> (LitValue(source[s][k].d) <= 15))
          /\ OutOfBounds(source[s]) # {} =>
                /\ InstructionsOf(s) = {}
                /\ ErrorsOf(s) # {}
          /\ \A k \in OutOfBounds(source[s]) :
                RegisterPlace(source[s], k) =>
                    \A e \in LogsOf(s) : logs[e].kind = "Error" /\ logs[e].msg = "register out of bounds"

\* `add r0, r300` parsed: the error and no line.
C16_Witness ==
    /\ Len(source) = 1
    /\ source[1] = <<TIdent("add"), TRegister(t0), TComma, TRegister(t300)>>
    /\ lines = <<>>
    /\ Len(logs) = 1
    /\ logs[1].msg = "register out of bounds"

\* The payload variants of an operand mode.
Allowed(mode) ==
    CASE mode = "NoParams" -> {"None"}
      [] mode = "OneRegister" -> {"OneRegister"}
      [] mode = "OneOrTwoRegisters" -> {"OneRegister", "TwoRegisters"}
      [] mode = "OneRegisterAndImmediate" -> {"OneRegisterImmediate"}
      [] mode = "TwoRegisters" -> {"TwoRegisters"}
      [] mode = "TwoRegistersOrImmediate" ->
            {"OneRegisterImmediate", "TwoRegisters", "TwoRegistersImmedaite"}
      [] mode = "TwoRegistersOrLongImmediate" -> {"TwoRegisters", "LongImmediate", "Label"}
      [] OTHER -> {}

\* C17: in every parsed instruction line the variant of the operand payload
\* is one that the operand mode of the line's mnemonic allows.
C17_PayloadByMode ==
    \A j \in 1..Len(lines) :
        lines[j].data.k = "Instruction" =>
            /\ lines[j].data.name \in Mnemonics
            /\ lines[j].data.p.k \in Allowed(assemble_info(lines[j].data.name).mode)

\* `clr r15` parsed: a one-register mnemonic with its one register.
C17_Witness ==
    /\ Len(source) = 1
    /\ source[1] = <<TIdent("clr"), TRegister(t15)>>
    /\ Len(lines) = 1
    /\ lines[1].data.name = "CLR"
    /\ lines[1].data.p = POneRegister(15)

KindsOf(ops) == [k \in 1..Len(ops) |-> ops[k].t]

\* The operand shapes of a mode, as the kinds of the tokens up to the end of
\* the line.
ShapesOf(mode) ==
    LET r == <<"Register">>
        rr == <<"Register", "Comma", "Register">>
        ri == <<"Register", "Comma", "Immediate">>
        rri == <<"Register", "Comma", "Register", "Comma", "Immediate">>
    IN  CASE mode = "NoParams" -> {<<>>}
          [] mode = "OneRegister" -> {r}
          [] mode = "OneOrTwoRegisters" -> {r, rr}
          [] mode = "OneRegisterAndImmediate" -> {ri}
          [] mode = "TwoRegisters" -> {rr}
          [] mode = "TwoRegistersOrImmediate" -> {ri, rr, rri}
          [] mode = "TwoRegistersOrLongImmediate" -> {rr, <<"Immediate">>, <<"Identifier">>}
          [] OTHER -> {}

\* Every register of the operands is one of the sixteen and every literal
\* has a value in the target: a decimal one fits, a hexadecimal or binary
\* one is cut to fit.
OperandsOk(ops, width) ==
    \A k \in 1..Len(ops) :
        /\ ops[k].t = "Register" => LitValue(ops[k].d) <= 15
        /\ ops[k].t = "Immediate" => (IsDecimal(ops[k].d) => LitValue(ops[k].d) < Pow2(width))

\* The line is a mnemonic, operands of a shape of its mode, and the end of
\* the line.
Matches(toks) ==
    /\ toks # <<>>
    /\ toks[1].t = "Ident"
    /\ [k \in 1..(Len(toks) - 1) |-> IF toks[k + 1].t = "Ident" THEN "Identifier" ELSE toks[k + 1].t]
           \in ShapesOf(ModeOf(toks[1].s))
    /\ OperandsOk(Tail(toks),
                  IF ModeOf(toks[1].s) = "TwoRegistersOrLongImmediate" THEN 16 ELSE 8)

\* The payload of a two-registers-or-long-immediate line, by the kind of its
\* first operand.
LongPayload(toks) ==
    CASE toks[2].t = "Register" -> PTwoRegisters(LitValue(toks[2].d), LitValue(toks[4].d))
      [] toks[2].t = "Immediate" -> PLongImmediate(LitValue(toks[2].d) % 65536)
      [] OTHER -> PLabel(toks[2].s)

\* C18: a mnemonic and the tokens after it give one instruction line, and no
\* error, exactly when the tokens are operands of a shape of the mnemonic's
\* mode (registers in 0..15, literals with a value in the target) followed by
\* the end of the line; otherwise they give no line and an error. For a
\* two-registers-or-long-immediate mnemonic the kind of the first operand
\* decides which one of the three payloads the line has, and a token after the
\* literal, the label or the second register makes the line an error.
C18_ShapeOrError ==
    \A s \in 1..Len(source) :
        (source[s] # <<>> /\ source[s][1].t = "Ident") =>
            /\ Matches(source[s]) =>
                  /\ Cardinality(LinesOf(s)) = 1
                  /\ Cardinality(InstructionsOf(s)) = 1
                  /\ ErrorsOf(s) = {}
                  /\ ModeOf(source[s][1].s) = "TwoRegistersOrLongImmediate" =>
                        \A j \in InstructionsOf(s) : lines[j].data.p = LongPayload(source[s])
            /\ ~Matches(source[s]) =>
                  /\ LinesOf(s) = {}
                  /\ ErrorsOf(s) # {}

\* `jmp r3 , r3 ,` parsed: a token after the second register, an error and
\* no line.
C18_Witness ==
    /\ Len(source) = 1
    /\ source[1] = <<TIdent("jmp"), TRegister(t3), TComma, TRegister(t3), TComma>>
    /\ lines = <<>>
    /\ Len(logs) = 1
    /\ logs[1].kind = "Error"
    /\ logs[1].msg = "unexpected token after second register"

\* C19: the binary is written to the output file only when neither the
\* parse nor the code generation gave an Error or an IOError: a run with such
\* a diagnostic writes no byte.
C19_NoOutputOnError ==
    (pc \in {"main_written", "lib_written"} /\ buffer # <<>>)
        => \A k \in 1..Len(logs) : ~is_error(logs[k])

\* The source line is an `.include` of a path.
IncludeOf(toks) ==
    /\ Len(Body(toks)) >= 2
    /\ Body(toks)[1].t = "Directive"
    /\ Body(toks)[1].s = "include"
    /\ Body(toks)[2].t = "String"

\* The label declaration a line starts with, as a parsed line.
LabelLine(toks, line) ==
    IF toks # <<>> /\ toks[1].t = "Label"
        THEN <<Line([line |-> line, origin |-> <<"[unknown]">>], LabelData(toks[1].s))>>
    ELSE <<>>

\* The whole source parsed at once gives the lines and the logs the state
\* holds.
C20_State ==
    /\ lines = parse_raw(source, NoOptions, IncFiles).lines
    /\ logs = parse_raw(source, NoOptions, IncFiles).logs

\* The step over an `.include`: the lines and logs of the file, parsed on
\* its own, come after those of the earlier source lines; every step keeps
\* what the earlier lines gave.
C20_Step ==
    Len(source') = Len(source) + 1 =>
        LET toks == source'[Len(source')]
        IN  /\ Len(lines') >= Len(lines) /\ SubSeq(lines', 1, Len(lines)) = lines
            /\ Len(logs') >= Len(logs) /\ SubSeq(logs', 1, Len(logs)) = logs
            /\ IncludeOf(toks) =>
                  /\ lines' = lines \o LabelLine(toks, Len(source))
                                    \o parse_file(Body(toks)[2].d, IncFiles).lines
                  /\ logs' = logs \o parse_file(Body(toks)[2].d, IncFiles).logs

\* C20: an `.include` on source line k is a splice in place: the parsed lines
\* are those of the source lines before k, then all the parsed lines of the
\* included file in their order, then those of the source lines after k, and
\* the diagnostics are spliced in the same order.
C20_IncludeSplice == []C20_State /\ [][C20_Step]_vars

\* `nop`, `.include "f"`, `nop`: the lines of f (and of g, which f includes)
\* between the two of the source, and the error of f and the warning of g in
\* that order.
C20_Witness ==
    /\ source = << <<TIdent("nop")>>, <<TDirective("include"), TString(tf)>>, <<TIdent("nop")>> >>
    /\ [j \in 1..Len(lines) |-> lines[j].origin] = <<<<"[unknown]">>, tf, tf, tg, tf, <<"[unknown]">>>>
    /\ [j \in 1..Len(lines) |-> lines[j].line] = <<0, 0, 0, 0, 3, 2>>
    /\ [j \in 1..Len(logs) |-> logs[j].kind] = <<"Error", "Warning">>
    /\ [j \in 1..Len(logs) |-> logs[j].origin] = <<tf, tg>>

\* The file the line includes cannot be opened, or cannot be read.
Unopenable(toks) ==
    /\ IncludeOf(toks)
    /\ \/ Body(toks)[2].d \notin DOMAIN IncFiles
       \/ ~IncFiles[Body(toks)[2].d].readable

\* The parse is never stopped: the next source line can be taken.
C21_State == pc = "parse"

\* The step over an `.include` of such a file adds no parsed line but the
\* label declaration the line starts with, and one log: an IOError with the
\* path of the file and the message of the system.
C21_Step ==
    (Len(source') = Len(source) + 1 /\ Unopenable(source'[Len(source')])) =>
        LET toks == source'[Len(source')]
            path == Body(toks)[2].d
        IN  /\ lines' = lines \o LabelLine(toks, Len(source))
            /\ Len(logs') = Len(logs) + 1
            /\ SubSeq(logs', 1, Len(logs)) = logs
            /\ logs'[Len(logs')].kind = "IOError"
            /\ logs'[Len(logs')].origin = path
            /\ logs'[Len(logs')].msg =
                   (IF path \in DOMAIN IncFiles THEN "stream did not contain valid UTF-8"
                    ELSE "No such file or directory")
            /\ pc' = "parse"

\* C21: an `.include` of a file that cannot be opened or read gives no parsed
\* line and exactly one IOError, with the path of the file and the message
\* of the system, and the lines after it are parsed.
C21_IncludeIOError == []C21_State /\ [][C21_Step]_vars

\* `.include "x"` (no such file), `.include "u"` (not readable), `nop`: two
\* IOErrors and the line of `nop`.
C21_Witness ==
    /\ source = << <<TDirective("include"), TString(tx)>>,
                   <<TDirective("include"), TString(tu)>>,
                   <<TIdent("nop")>> >>
    /\ Len(lines) = 1
    /\ lines[1].line = 2
    /\ lines[1].data.name = "NOP"
    /\ [j \in 1..Len(logs) |-> logs[j].kind] = <<"IOError", "IOError">>
    /\ [j \in 1..Len(logs) |-> logs[j].origin] = <<tx, tu>>

\* The 'empty db field' warnings of source line s.
EmptyDbWarnings(s) ==
    {k \in LogsOf(s) : logs[k].kind = "Warning" /\ logs[k].msg = "empty db field"}

\* C22: a `.db` directive with no items gives exactly one 'empty db field'
\* warning and no error, and the parse goes on with the next source line.
C22_EmptyDb ==
    \A s \in 1..Len(source) :
        Body(source[s]) = <<TDirective("db")>> =>
            /\ Cardinality(EmptyDbWarnings(s)) = 1
            /\ ErrorsOf(s) = {}
            /\ s = Len(source) => pc = "parse"

\* The bytes of the valid lines of a source, from line k on, in order.
RECURSIVE ValidBytes(_, _)
ValidBytes(src, k) ==
    IF k > Len(src) THEN <<>>
    ELSE (IF src[k] # BlankLine /\ assemble_line(src[k], k - 1).ok
              THEN assemble_line(src[k], k - 1).v
          ELSE <<>>) \o ValidBytes(src, k + 1)

\* C23: an error on one line never stops the pass: when assemble returns,
\* the buffer holds the bytes of every valid line, those of the lines after
\* a line in error too.
C23_PassNeverStops ==
    pc \in {"asm_done", "asm_err"} => buffer = ValidBytes(source, 1)

\* C24: parsing terminates on a source with no `.include`: no iteration of
\* the loop over the source lines goes on for ever, and a source line gives
\* a bounded number of parsed lines (its label and what follows) and of
\* diagnostics (at most one for each of its tokens and one for its end).
C24_ParseTerminates ==
    \A s \in 1..Len(source) :
        ~IsInclude(source[s]) =>
            /\ Cardinality(LinesOf(s)) <= 2
            /\ Cardinality(LogsOf(s)) <= Len(source[s]) + 1

\* C25: the opcode table is injective: the base opcode of the mnemonic of a
\* parsed instruction is the base opcode of no other mnemonic.
C25_OpcodesInjective ==
    \A j \in 1..Len(lines) :
        lines[j].data.k = "Instruction" =>
            \A m \in Mnemonics :
                m # lines[j].data.name =>
                    assemble_info(m).op # assemble_info(lines[j].data.name).op

\* The text without the white space it starts with.
RECURSIVE SkipSpaces(_)
SkipSpaces(text) ==
    IF text # <<>> /\ Head(text) \in {" ", "\t"} THEN SkipSpaces(Tail(text)) ELSE text

\* The decimal digits the text starts with.
RECURSIVE DigitRun(_)
DigitRun(text) ==
    IF text # <<>> /\ is_ascii_digit(Head(text)) THEN <<Head(text)>> \o DigitRun(Tail(text))
    ELSE <<>>

\* A token starts with a decimal digit, and not with the prefix 0x or 0b of
\* a hexadecimal or binary literal.
StartsDecimal(text) ==
    /\ DigitRun(SkipSpaces(text)) # <<>>
    /\ ~(/\ DigitRun(SkipSpaces(text)) = <<"0">>
         /\ Len(SkipSpaces(text)) >= 2
         /\ SkipSpaces(text)[2] \in {"x", "b"})

C26_Step ==
    (pc = "lex" /\ StartsDecimal(im)) =>
        /\ pc' = "lex"
        /\ lines' = Append(lines, TImmediate(DigitRun(SkipSpaces(im))))

\* C26: a call of the tokenizer on a text that starts with decimal digits
\* returns, without a crash, a numeric literal whose text is exactly the
\* maximal run of digits; so for `0` at the end of the line and for `0`
\* before a space, a comma or another character that is not a digit.
C26_DigitRun == [][C26_Step]_vars

\* C27: when assemble succeeds, on a source of any number of lines, the
\* count it returns is the number of bytes it appended to the buffer.
C27_CountIsBytes == pc = "asm_done" => parsed.val = Len(buffer)

====
